---- MODULE Spec2Model ----
(***************************************************************************)
(* A model of the session scheduler of claude-code-trees                   *)
(* (src/src/claude_code_trees/session.py): SessionManager.execute_session, *)
(* its polling loop _execute_tasks_with_dependencies, the task coroutines  *)
(* _execute_single_task, and pause_session / resume_session.               *)
(*                                                                         *)
(* The program runs on one asyncio event loop: a coroutine runs alone      *)
(* until it awaits.  An action of the model is the code a coroutine runs   *)
(* between two suspension points.                                          *)
(***************************************************************************)
EXTENDS Integers, Sequences, FiniteSets, TLC

\* ------------------------------------------------------------- bounds
MaxTasks == 4
MaxGraphTasks == 3
MaxPriority == 2
MaxDeps == 2
MaxWorkers == 2
MaxConcurrent == 2
MaxSessions == 2
MaxCalls == 2

TaskIds == 1..MaxTasks
\* A task id that no session holds (a dependency may name it).
Ghost == 0
SessionIds == 1..MaxSessions
CallIds == 1..MaxCalls
WorkerIds == 1..MaxWorkers
\* Python's None for an instance id.
None == 0

VARIABLES
    session,        \* SessionManager.active_sessions: id -> Session
    task,           \* the Task objects, by task id
    call,           \* the execute_session invocations: locals and position
    coro,           \* the asyncio tasks running _execute_single_task
    _running_tasks, \* SessionManager._running_tasks: task id -> asyncio task
    dispatch_log,   \* history: the tasks in the order they were dispatched
    lifecycle,      \* the last pause_session / resume_session call and its result
    orchestrator,   \* Orchestrator: the worker pool and the last call on it
    claude_instance \* a ClaudeCodeInstance and its execute_query call

vars == <<session, task, call, coro, _running_tasks, dispatch_log, lifecycle,
          orchestrator, claude_instance>>

\* The state of the SessionManager, and that of the other components.
sessionVars == <<session, task, call, coro, _running_tasks, dispatch_log, lifecycle>>
componentVars == <<orchestrator, claude_instance>>

\* ------------------------------------------------------------- records
\* config.max_concurrent_instances, and the instance ids in use.
MaxPool == 2
PoolIds == 1..(MaxPool + 2)

\* claude_instance.py 32-38.
InstanceStatus == {"idle", "active", "busy", "stopped", "error"}

\* claude_instance.py 83-86.
IsRunning(status) == status \in {"idle", "active"}

\* A call of run_parallel_tasks or run_sequential_workflow: its position,
\* the session it created, what it passes to execute_session, and the dict
\* it returned.
NoFacade ==
    [op |-> "none", pc |-> "idle", session_id |-> 0, ntasks |-> 0,
     instances |-> <<>>, max_concurrent |-> 0, argument |-> 0, pooled |-> 0, created |-> 0,
     registered |-> {}, ret |-> "none", success |-> FALSE,
     instances_used |-> 0]

\* Orchestrator.__init__ (orchestrator.py 37-39) on a database that holds
\* the given instance records: an empty pool, no call made yet.  status and
\* last_activity are those of the ClaudeCodeInstance objects made so far
\* ("none" where there is no object; last_activity "None" until the first
\* _update_status, then "recent" or, once older than the cleanup threshold,
\* "stale"); last_accessed is the column of the worktree's database row
\* (database.py 21, "None" where there is no worktree); stop_failed the
\* workers whose stop() returned False in the last shutdown.
NewOrchestrator(records) ==
    [active_instances |-> {}, records |-> records, facade |-> NoFacade,
     status |-> [id \in PoolIds |-> "none"],
     last_activity |-> [id \in PoolIds |-> "None"],
     last_accessed |-> [id \in PoolIds |->
                          IF id \in records THEN "recent" ELSE "None"],
     stop_failed |-> {},
     op |-> "none", arg |-> 0, ret |-> "none"]

\* ClaudeCodeInstance (claude_instance.py 68-72) in the given status, bound
\* to a worktree that exists or not, with no execute_query call made yet.
\* history holds what the endpoint did at each attempt of the call, waits
\* the seconds slept between attempts, result the dict returned; op names the
\* method that took the last step on the worker, op_ret what start, stop or
\* health_check returned, probed whether start reached _test_connection.
NoQueryResult == [success |-> FALSE, error |-> "none", keys |-> {}]

NoHealth == [healthy |-> TRUE, issues |-> <<>>]

NewInstance(status, worktree_exists) ==
    [status |-> status, worktree_exists |-> worktree_exists,
     worktree_is_git |-> worktree_exists, health |-> NoHealth,
     pc |-> "idle", max_retries |-> 0, attempt |-> 0,
     history |-> <<>>, waits |-> <<>>, ret |-> "none",
     result |-> NoQueryResult,
     op |-> "none", op_ret |-> "none", probed |-> "none"]

\* No pause_session or resume_session call was made yet.
NoLifecycle == [op |-> "none", session_id |-> 0, ret |-> "none"]

\* TaskResult (session.py 15-22); task_id = 0 stands for "result is None".
NoResult == [task_id |-> 0, success |-> FALSE, output |-> "none",
             error |-> "none", instance_id |-> None]

\* Task (session.py 25-38) with its defaults.
NewTask(pri, deps) ==
    [priority |-> pri, dependencies |-> deps, status |-> "pending",
     assigned_instance |-> None, result |-> NoResult,
     started_at |-> FALSE, completed_at |-> FALSE]

\* session.model_dump_json() (session.py 103, 412, 421): the status and the
\* tasks of the session, each task with all its fields.
ModelDumpJson(status, ids, records) ==
    [status |-> status, tasks |-> [t \in ids |-> records[t]]]

\* The data_json column of a session id that has no row.
NoRow == ModelDumpJson("none", {}, <<>>)

\* What create_session hands to database.create_session (session.py 91-104):
\* the dump of the session just constructed, active and without tasks.
CreatedJson == ModelDumpJson("active", {}, <<>>)

\* Session (session.py 41-52) with its defaults; exists = FALSE is an id
\* that get_session does not find.  data_json is the column of the session's
\* row in the database: every session starts with create_session, which
\* writes the row, and tasks come in by add_task afterwards.
NewSession(tasks) ==
    [exists |-> TRUE, status |-> "active", tasks |-> tasks,
     error |-> "none", completed_at |-> FALSE, data_json |-> CreatedJson]

NoSession ==
    [exists |-> FALSE, status |-> "none", tasks |-> {},
     error |-> "none", completed_at |-> FALSE, data_json |-> NoRow]

\* The locals of one execute_session invocation.
IdleCall ==
    [pc |-> "idle", session_id |-> 0, instances |-> <<>>, max_concurrent |-> 0,
     semaphore |-> 0, completed_tasks |-> {}, running_tasks |-> {},
     ret |-> "none"]

\* An asyncio task of _execute_single_task: its position, the worker it was
\* given, and what the worker's run_task did ("none" until it ends).
NoCoro == [st |-> "none", instance |-> None, outcome |-> "none"]

Range(f) == {f[i] : i \in DOMAIN f}

\* ------------------------------------------------------------- initial state
\* The dependency lists a task may carry: any task ids of the session, its
\* own included, and the ghost (Task.dependencies is an unchecked list of
\* strings).
DepSets(n) == {D \in SUBSET ((1..n) \cup {Ghost}) : Cardinality(D) <= MaxDeps}

\* The dependency lists add_task can build: the ids of tasks added before
\* (a task id is generated inside add_task, session.py 155).
EarlierDepSets(t) == {D \in SUBSET (1..(t - 1)) : Cardinality(D) <= MaxDeps}

\* A manager holding one active session (id 1) of tasks 1..n with the given
\* priorities and dependencies, nothing executed yet; session id 2 is unknown.
InitWith(n, pri, deps) ==
    /\ session = [s \in SessionIds |->
                    IF s = 1 THEN NewSession(1..n) ELSE NoSession]
    /\ task = [t \in TaskIds |->
                 IF t <= n THEN NewTask(pri[t], deps[t]) ELSE NewTask(0, {})]
    /\ call = [c \in CallIds |-> IdleCall]
    /\ coro = [c \in CallIds |-> [t \in TaskIds |-> NoCoro]]
    /\ _running_tasks = [t \in TaskIds |-> 0]
    /\ dispatch_log = <<>>
    /\ lifecycle = NoLifecycle
    /\ orchestrator = NewOrchestrator({})
    /\ claude_instance = NewInstance("idle", TRUE)

\* Any dependency graph over up to MaxGraphTasks tasks, cycles and unknown ids
\* included, every task with the default priority (session.py 30).
Init ==
    \E n \in 0..MaxGraphTasks :
      \E deps \in [1..n -> DepSets(n)] :
        InitWith(n, [t \in 1..n |-> 0], deps)

\* A session built by add_task: priorities 1..MaxPriority, dependencies on
\* earlier tasks only.
InitPriority ==
    \E n \in 1..MaxTasks :
      \E pri \in [1..n -> 1..MaxPriority] :
        \E deps \in [1..n -> SUBSET (1..n)] :
          /\ \A t \in 1..n : deps[t] \in EarlierDepSets(t)
          /\ InitWith(n, pri, deps)

\* Task t depends on d directly or through other tasks: the dependency lists
\* (session.py 31) followed to any depth.
RECURSIVE DepClosure(_, _)
DepClosure(S, k) ==
    IF k = 0 THEN S
    ELSE DepClosure(S \cup UNION {task[x].dependencies \cap TaskIds : x \in S}, k - 1)
TransitiveDeps(t) == DepClosure(task[t].dependencies \cap TaskIds, MaxTasks)

\* Any acyclic dependency graph over tasks of the session, default priorities.
InitAcyclic ==
    \E n \in 1..MaxGraphTasks :
      \E deps \in [1..n -> DepSets(n)] :
        /\ InitWith(n, [t \in 1..n |-> 0], deps)
        /\ \A t \in 1..n : Ghost \notin deps[t] /\ t \notin TransitiveDeps(t)

\* ------------------------------------------------------------- the event loop
\* A coroutine in "run" is executing and has not awaited: nothing else runs.
NoneRunning == \A c \in CallIds : call[c].pc # "run"

\* asyncio.Semaphore.acquire (session.py 311): taken without suspending
\* while the value is positive.
CanAcquire(c) == call[c].semaphore > 0

\* A task created by asyncio.create_task (session.py 283) gets its first step
\* from the loop's ready queue before any timer (the sleep of 303/306) fires.
NoReadyHandle ==
    \A c \in CallIds, t \in TaskIds : ~(coro[c][t].st = "created" /\ CanAcquire(c))

\* execute_session invocation c resumes: it is mid-step, or its sleep ended.
Runnable(c) ==
    \/ call[c].pc = "run"
    \/ call[c].pc = "sleep" /\ NoneRunning /\ NoReadyHandle

\* ------------------------------------------------------------- the scheduler
\* session.py 250: while len(completed_tasks) < len(session.tasks)
LoopCondition(ncompleted, ntasks) == ncompleted < ntasks

\* session.py 254-257: the test that puts a task on ready_tasks.
\* (variant: a paused session's tasks are not ready)
IsReadyUnlessPaused(t, running, completed) ==
    /\ task[t].status = "pending"
    /\ t \notin running
    /\ t \notin completed
    /\ \A dep \in task[t].dependencies : dep \in completed
    /\ \A s \in SessionIds : t \in session[s].tasks => session[s].status # "paused"

\* (variant: the status of the task is not looked at)
IsReadyAnyStatus(t, running, completed) ==
    /\ t \notin running
    /\ t \notin completed
    /\ \A dep \in task[t].dependencies : dep \in completed

IsReady(t, running, completed) ==
    /\ task[t].status = "pending"
    /\ t \notin running
    /\ t \notin completed
    /\ \A dep \in task[t].dependencies : dep \in completed

\* session.py 252-258: ready_tasks, as the set of its members (the list is in
\* session.tasks order, which is the order of the task ids).
ReadyTasks(c) ==
    {t \in session[call[c].session_id].tasks :
        IsReady(t, call[c].running_tasks, call[c].completed_tasks)}

\* session.py 261: the sort key and direction; t goes before u.
\* (variant: sort without reverse=True)
BeforeAscending(t, u) ==
    \/ task[t].priority < task[u].priority
    \/ task[t].priority = task[u].priority /\ t < u

Before(t, u) ==
    \/ task[t].priority > task[u].priority
    \/ task[t].priority = task[u].priority /\ t < u

\* session.py 261: ready_tasks.sort(key=priority, reverse=True), a stable
\* sort: equal priorities keep the order of session.tasks.
RECURSIVE SortByPriority(_)
SortByPriority(S) ==
    IF S = {} THEN <<>>
    ELSE LET first == CHOOSE t \in S : \A u \in S \ {t} : Before(t, u)
         IN  <<first>> \o SortByPriority(S \ {first})

\* session.py 265: if len(running_tasks) >= semaphore._value: break
\* (variant: > in place of >=)
AtLimitOffByOne(nrunning, value) == nrunning > value

AtLimit(nrunning, value) == nrunning >= value

\* session.py 269-274: the first instance of the list that no task of
\* running_tasks is assigned to, None when there is none.
\* (variant: the first instance, assigned or not)
AvailableInstanceAny(instances, running, tasks) ==
    IF instances = <<>> THEN None ELSE instances[1]

AvailableInstance(instances, running, tasks) ==
    LET free == {i \in DOMAIN instances :
                    ~\E t \in running : tasks[t].assigned_instance = instances[i]}
    IN  IF free = {} THEN None
        ELSE instances[CHOOSE i \in free : \A j \in free : i <= j]

\* session.py 264-285: the dispatch loop over the sorted ready list.  st holds
\* what the loop changes: running_tasks, the Task objects, and the tasks it
\* started, in order.
RECURSIVE StartTasks(_, _, _)
StartTasks(ready, c, st) ==
    IF ready = <<>> THEN st
    ELSE IF AtLimit(Cardinality(st.running), call[c].semaphore) THEN st
    ELSE LET t == Head(ready)
             available_instance ==
                 AvailableInstance(call[c].instances, st.running, st.tasks)
         IN  IF available_instance # None
             THEN StartTasks(Tail(ready), c,
                    [running |-> st.running \cup {t},
                     tasks |-> [st.tasks EXCEPT
                                  ![t].assigned_instance = available_instance,
                                  ![t].status = "running",
                                  ![t].started_at = TRUE],
                     started |-> Append(st.started, t)])
             ELSE StartTasks(Tail(ready), c, st)

\* session.py 298: what reaping a finished execution adds to completed_tasks.
\* (variant: completed_tasks.add left out)
ReapedForget(done_ids, running) == {}

Reaped(done_ids, running) == done_ids \cap running

\* session.py 283-285: the asyncio tasks after the pass created one for each
\* task it started.
CoroAfterStart(c, st) ==
    [coro EXCEPT ![c] = [t \in TaskIds |->
        IF t \in Range(st.started)
        THEN [st |-> "created", instance |-> st.tasks[t].assigned_instance,
              outcome |-> "none"]
        ELSE @[t]]]

\* session.py 285: self._running_tasks after the pass stored those tasks.
MapAfterStart(c, st) ==
    [t \in TaskIds |-> IF t \in Range(st.started) THEN c ELSE _running_tasks[t]]

\* session.py 288-292: done_task_ids, the keys of self._running_tasks whose
\* asyncio task is done; scanned only when running_tasks is not empty.
DoneTaskIds(c, st) ==
    IF st.running = {} THEN {}
    ELSE {t \in TaskIds :
            /\ MapAfterStart(c, st)[t] # 0
            /\ CoroAfterStart(c, st)[MapAfterStart(c, st)[t]][t].st = "done"}

\* session.py 250-306: one pass of the while loop, from the test of 250 to the
\* sleep of 303/306 or, when something was reaped, back to the test.
Cycle(c) ==
    /\ Runnable(c)
    /\ LoopCondition(Cardinality(call[c].completed_tasks),
                     Cardinality(session[call[c].session_id].tasks))
    /\ \E st \in {StartTasks(SortByPriority(ReadyTasks(c)), c,
                    [running |-> call[c].running_tasks, tasks |-> task,
                     started |-> <<>>])} :
       \E done_task_ids \in {DoneTaskIds(c, st)} :
       \E reaped \in {Reaped(done_task_ids, st.running)} :
           /\ task' = st.tasks
           /\ coro' = CoroAfterStart(c, st)
           /\ _running_tasks' =
                 [t \in TaskIds |->
                    IF t \in done_task_ids THEN 0 ELSE MapAfterStart(c, st)[t]]
           /\ call' = [call EXCEPT
                 ![c].running_tasks = st.running \ reaped,
                 ![c].completed_tasks = @ \cup reaped,
                 ![c].pc = IF done_task_ids # {} THEN "run" ELSE "sleep"]
           /\ dispatch_log' = dispatch_log \o [i \in DOMAIN st.started |->
                                                 <<c, st.started[i]>>]
    /\ UNCHANGED <<session, lifecycle, componentVars>>

\* ------------------------------------------------------------- task execution
\* What instance.run_task does (session.py 316): returns a result dict with
\* success true, with success false and an error, or without a success key,
\* or raises.
Outcomes == {"success", "failure", "no_flag", "raise"}

\* session.py 331 and 346: the task's status from its TaskResult.
\* (variant: success flag ignored)
TaskStatusAlwaysCompleted(task_result) == "completed"

\* (variant: a task whose execution did not succeed is queued again)
TaskStatusRequeue(task_result) ==
    IF task_result.success THEN "completed" ELSE "pending"

TaskStatus(task_result) ==
    IF task_result.success THEN "completed" ELSE "failed"

\* session.py 320-327 and 337-343: the TaskResult built from what run_task did.
\* (variant: the metadata does not carry the instance id)
MakeTaskResultNoMetadata(t, instance, outcome) ==
    [task_id |-> t,
     success |-> (outcome = "success"),
     output |-> IF outcome = "success" THEN "output" ELSE "none",
     error |-> CASE outcome = "failure" -> "task_error"
                 [] outcome = "raise" -> "exception_text"
                 [] OTHER -> "none",
     instance_id |-> None]

MakeTaskResult(t, instance, outcome) ==
    [task_id |-> t,
     success |-> (outcome = "success"),      \* result.get("success", False)
     output |-> IF outcome = "success" THEN "output" ELSE "none",
     error |-> CASE outcome = "failure" -> "task_error"
                 [] outcome = "raise" -> "exception_text"     \* str(e)
                 [] OTHER -> "none",
     instance_id |-> instance]

\* session.py 311-316: the coroutine's first step takes a semaphore slot and
\* calls the worker.
TaskStart(c, t) ==
    /\ NoneRunning
    /\ coro[c][t].st = "created"
    /\ CanAcquire(c)
    /\ coro' = [coro EXCEPT ![c][t].st = "executing"]
    /\ call' = [call EXCEPT ![c].semaphore = @ - 1]
    /\ UNCHANGED <<session, task, _running_tasks, dispatch_log, lifecycle, componentVars>>

\* session.py 316-347: run_task returns or raises; the result is attached and
\* the slot released as the coroutine ends.
TaskFinish(c, t, outcome) ==
    /\ NoneRunning
    /\ coro[c][t].st = "executing"
    /\ LET task_result == MakeTaskResult(t, coro[c][t].instance, outcome)
       IN  task' = [task EXCEPT ![t].result = task_result,
                                ![t].status = TaskStatus(task_result),
                                ![t].completed_at = TRUE]
    /\ coro' = [coro EXCEPT ![c][t].st = "done", ![c][t].outcome = outcome]
    /\ call' = [call EXCEPT ![c].semaphore = @ + 1]
    /\ UNCHANGED <<session, _running_tasks, dispatch_log, lifecycle, componentVars>>

\* ------------------------------------------------------------- execute_session
\* The worker lists a caller passes: the first k workers of the pool.
InstanceLists == {[i \in 1..k |-> i] : k \in 0..MaxWorkers}

\* What the persistence calls of execute_session do: all succeed; the save
\* after the loop (228-229) raises and the one of the handler (238-239)
\* succeeds; both raise.
DbOutcomes == {"ok", "error", "down"}

\* session.py 407-422: _save_session.  When the session has a row, the dump
\* is assigned to attributes of the model object that get_session_model
\* returned; the database session that loaded it is closed (database.py
\* 211-216) and nothing is committed, so the column keeps its value.  Only a
\* session without a row gets one, holding the dump.
SaveSession(data_json, dump) ==
    IF data_json # NoRow THEN data_json ELSE dump

\* session.py 213: if session.status != "active": return False
\* (variant: only a completed session is turned away)
RejectsOnlyCompleted(status) == status = "completed"

Rejects(status) == status # "active"

\* session.py 224: the status a finished loop gives the session.
\* (variant: a failed task fails the session)
StatusAfterLoopByTasks(s) ==
    IF \E t \in session[s].tasks : task[t].status = "failed"
    THEN "failed" ELSE "completed"

StatusAfterLoop(s) == "completed"

\* The record of an invocation that has returned (its locals are gone).
Returned(s, ret) == [IdleCall EXCEPT !.pc = "done", !.session_id = s, !.ret = ret]

\* session.py 233-241: the handler of an error raised inside the try block.
HandleError(c, s, db) ==
    /\ session' = [session EXCEPT
          ![s].status = "failed", ![s].error = "error_text",
          ![s].data_json =
              IF db = "down" THEN @
              ELSE SaveSession(@, ModelDumpJson("failed", session[s].tasks, task))]
    /\ call' = [call EXCEPT ![c] =
                  Returned(s, IF db = "down" THEN "raised" ELSE "false")]

\* session.py 196-221: the call up to the first pass of the loop.  The caller
\* passes the worker list and max_concurrent; they are read only once the
\* session is found active.
\* args is the set of <<instances, max_concurrent>> the caller may pass.
ExecuteSessionArgs(c, s, args) ==
    /\ call[c].pc \in {"idle", "done"}
    /\ NoneRunning
    /\ IF ~session[s].exists \/ Rejects(session[s].status)
       THEN /\ call' = [call EXCEPT ![c] = Returned(s, "false")]
            /\ UNCHANGED session
       ELSE \E arg \in args :
            \E instances \in {arg[1]}, max_concurrent \in {arg[2]} :
              IF max_concurrent < 0
              THEN \* asyncio.Semaphore(max_concurrent) raises ValueError (218)
                   \E db \in {"ok", "down"} : HandleError(c, s, db)
              ELSE /\ call' = [call EXCEPT ![c] =
                         [pc |-> "run", session_id |-> s, instances |-> instances,
                          max_concurrent |-> max_concurrent,
                          semaphore |-> max_concurrent,
                          completed_tasks |-> {}, running_tasks |-> {},
                          ret |-> "none"]]
                   /\ UNCHANGED session
    /\ UNCHANGED <<task, coro, _running_tasks, dispatch_log, lifecycle, componentVars>>

ExecuteSessionFrom(c, s, lists) ==
    ExecuteSessionArgs(c, s, lists \X (-1..MaxConcurrent))

ExecuteSession(c, s) == ExecuteSessionFrom(c, s, InstanceLists)

\* session.py 250 and 223-241: the loop ends; the session is marked and saved.
LoopExit(c, db) ==
    /\ Runnable(c)
    /\ ~LoopCondition(Cardinality(call[c].completed_tasks),
                      Cardinality(session[call[c].session_id].tasks))
    /\ LET s == call[c].session_id
       IN  IF db = "ok"
           THEN /\ session' = [session EXCEPT
                     ![s].status = StatusAfterLoop(s),
                     ![s].completed_at = TRUE,
                     ![s].data_json =
                         SaveSession(@, ModelDumpJson(StatusAfterLoop(s),
                                                      session[s].tasks, task))]
                /\ call' = [call EXCEPT ![c] = Returned(s, "true")]
           ELSE /\ session' = [session EXCEPT ![s].status = "failed",
                                              ![s].completed_at = TRUE,
                                              ![s].error = "error_text"]
                /\ call' = [call EXCEPT ![c] =
                              Returned(s, IF db = "down" THEN "raised" ELSE "false")]
    /\ UNCHANGED <<task, coro, _running_tasks, dispatch_log, lifecycle, componentVars>>

\* ------------------------------------------------------------- pause / resume
\* What the persistence calls of pause_session / resume_session do (388-389,
\* 402-403): succeed, or raise.
SaveOutcomes == {"ok", "error"}

\* session.py 382 / 396: the status a lifecycle call requires.
\* (variant: any status but the target one)
LifecycleAllowedFromAny(status, from, to) == status # to

LifecycleAllowed(status, from, to) == status = from

\* session.py 379-391 and 393-405: both calls have the same shape.  The
\* session is looked up and its status tested; the status is then set in
\* memory before the session is saved, so a raising save leaves it set.
LifecycleCall(op, s, from, to, db) ==
    /\ NoneRunning
    /\ IF ~session[s].exists \/ ~LifecycleAllowed(session[s].status, from, to)
       THEN /\ lifecycle' = [op |-> op, session_id |-> s, ret |-> "false"]
            /\ UNCHANGED session
       ELSE /\ session' = [session EXCEPT
                 ![s].status = to,
                 ![s].data_json =
                     IF db = "ok"
                     THEN SaveSession(@, ModelDumpJson(to, session[s].tasks, task))
                     ELSE @]
            /\ lifecycle' = [op |-> op, session_id |-> s,
                             ret |-> IF db = "ok" THEN "true" ELSE "raised"]
    /\ UNCHANGED <<task, call, coro, _running_tasks, dispatch_log, componentVars>>

\* session.py 379-391
PauseSession(s, db) == LifecycleCall("pause", s, "active", "paused", db)

\* session.py 393-405
ResumeSession(s, db) == LifecycleCall("resume", s, "paused", "active", db)

\* ------------------------------------------------------------- specification
\* No execute_session invocation is in flight.
NoCallInFlight == \A c \in CallIds : call[c].pc \in {"idle", "done"}

\* A caller that awaits each execute_session before the next needs one
\* invocation record: a new call takes the place of the one that returned.
SequentialCallIds == {1}

\* One caller: execute_session invocations follow one another.
Next ==
    \/ \E c \in SequentialCallIds, s \in SessionIds : NoCallInFlight /\ ExecuteSession(c, s)
    \/ \E c \in SequentialCallIds : Cycle(c)
    \/ \E c \in SequentialCallIds, db \in DbOutcomes : LoopExit(c, db)
    \/ \E c \in SequentialCallIds, t \in TaskIds : TaskStart(c, t)
    \/ \E c \in SequentialCallIds, t \in TaskIds, outcome \in Outcomes : TaskFinish(c, t, outcome)

Spec == Init /\ [][Next]_vars

\* The same caller, and pause_session / resume_session called at any await.
NextLifecycle ==
    \/ Next
    \/ \E s \in SessionIds, db \in SaveOutcomes : PauseSession(s, db)
    \/ \E s \in SessionIds, db \in SaveOutcomes : ResumeSession(s, db)

SpecLifecycle == Init /\ [][NextLifecycle]_vars

\* Sessions with priorities, persistence that works and workers that always
\* succeed.
NextPriority ==
    \/ \E c \in SequentialCallIds, s \in SessionIds : NoCallInFlight /\ ExecuteSession(c, s)
    \/ \E c \in SequentialCallIds : Cycle(c)
    \/ \E c \in SequentialCallIds : LoopExit(c, "ok")
    \/ \E c \in SequentialCallIds, t \in TaskIds : TaskStart(c, t)
    \/ \E c \in SequentialCallIds, t \in TaskIds : TaskFinish(c, t, "success")

SpecPriority == InitPriority /\ [][NextPriority]_vars

\* Acyclic sessions and the scheduling asyncio gives: a coroutine that can take a step takes it, a sleep ends, and every
\* run_task returns or raises.
NextFair ==
    \/ \E c \in SequentialCallIds, s \in SessionIds : NoCallInFlight /\ ExecuteSession(c, s)
    \/ \E c \in SequentialCallIds : Cycle(c)
    \/ \E c \in SequentialCallIds, db \in DbOutcomes : LoopExit(c, db)
    \/ \E c \in SequentialCallIds, t \in TaskIds : TaskStart(c, t)
    \/ \E c \in SequentialCallIds, t \in TaskIds, outcome \in Outcomes : TaskFinish(c, t, outcome)

\* A step of the event loop other than a new call.
Progress ==
    \/ \E c \in SequentialCallIds : Cycle(c)
    \/ \E c \in SequentialCallIds, db \in DbOutcomes : LoopExit(c, db)
    \/ \E c \in SequentialCallIds, t \in TaskIds : TaskStart(c, t)
    \/ \E c \in SequentialCallIds, t \in TaskIds, outcome \in Outcomes : TaskFinish(c, t, outcome)

Fairness == WF_vars(Progress)

SpecFair == InitAcyclic /\ [][NextFair]_vars /\ Fairness


\* ------------------------------------------------------------- concurrent callers
\* Tasks per session when two sessions share the manager.
MaxSessionTasks == 2

\* The worker lists concurrent callers pass: any list of distinct workers.
WorkerLists ==
    {<<>>} \cup {<<w>> : w \in WorkerIds}
           \cup {<<w, v>> : <<w, v>> \in {x \in WorkerIds \X WorkerIds : x[1] # x[2]}}

\* A manager holding two active sessions built by create_session and
\* add_task: session 1 owns tasks 1..n1 and session 2 the next n2, each task
\* depending on nothing or on the task added before it to its session.
InitSessions ==
    \E n1 \in 0..MaxSessionTasks, n2 \in 0..MaxSessionTasks :
      \E chained \in SUBSET ((2..n1) \cup ((n1 + 2)..(n1 + n2))) :
        /\ n1 + n2 <= MaxGraphTasks
        /\ session = [s \in SessionIds |->
                        CASE s = 1 -> NewSession(1..n1)
                          [] s = 2 -> NewSession((n1 + 1)..(n1 + n2))
                          [] OTHER -> NoSession]
        /\ task = [t \in TaskIds |->
                     NewTask(0, IF t \in chained THEN {t - 1} ELSE {})]
        /\ call = [c \in CallIds |-> IdleCall]
        /\ coro = [c \in CallIds |-> [t \in TaskIds |-> NoCoro]]
        /\ _running_tasks = [t \in TaskIds |-> 0]
        /\ dispatch_log = <<>>
        /\ lifecycle = NoLifecycle
        /\ orchestrator = NewOrchestrator({})
        /\ claude_instance = NewInstance("idle", TRUE)

\* MaxCalls callers on one event loop, each making one execute_session call;
\* the calls overlap (as asyncio.gather over run_parallel_tasks makes them).
\* A worker returns success true or false; the save after a finished loop
\* works or raises.
NextConcurrent ==
    \/ \E c \in CallIds, s \in SessionIds :
          call[c].pc = "idle" /\ ExecuteSessionFrom(c, s, WorkerLists)
    \/ \E c \in CallIds : Cycle(c)
    \/ \E c \in CallIds, db \in {"ok", "error"} : LoopExit(c, db)
    \/ \E c \in CallIds, t \in TaskIds : TaskStart(c, t)
    \/ \E c \in CallIds, t \in TaskIds, outcome \in {"success", "failure"} :
          TaskFinish(c, t, outcome)

SpecConcurrent == InitSessions /\ [][NextConcurrent]_vars

\* ------------------------------------------------------------- pausing during a call
\* Callers that start execute_session at any time, also while another call
\* is in flight, and pause_session called at any await and never undone;
\* with the scheduling asyncio gives.
NextPause ==
    \/ \E c \in CallIds, s \in SessionIds : ExecuteSession(c, s)
    \/ \E c \in CallIds : Cycle(c)
    \/ \E c \in CallIds, db \in {"ok", "error"} : LoopExit(c, db)
    \/ \E c \in CallIds, t \in TaskIds : TaskStart(c, t)
    \/ \E c \in CallIds, t \in TaskIds, outcome \in {"success", "failure"} :
          TaskFinish(c, t, outcome)
    \/ \E s \in SessionIds : PauseSession(s, "ok")

\* A step of the event loop other than a call of the callers.
ProgressPause ==
    \/ \E c \in CallIds : Cycle(c)
    \/ \E c \in CallIds, db \in {"ok", "error"} : LoopExit(c, db)
    \/ \E c \in CallIds, t \in TaskIds : TaskStart(c, t)
    \/ \E c \in CallIds, t \in TaskIds, outcome \in {"success", "failure"} :
          TaskFinish(c, t, outcome)

\* One active session of up to MaxSessionTasks tasks with acyclic
\* dependencies on its own tasks.
InitPause ==
    \E n \in 1..MaxSessionTasks :
      \E deps \in [1..n -> DepSets(n)] :
        /\ InitWith(n, [t \in 1..n |-> 0], deps)
        /\ \A t \in 1..n : Ghost \notin deps[t] /\ t \notin TransitiveDeps(t)

SpecPause == InitPause /\ [][NextPause]_vars /\ WF_vars(ProgressPause)

\* ------------------------------------------------------------- the worker pool
\* A SessionManager without sessions (session.py 70-72).
NoSessions ==
    /\ session = [s \in SessionIds |-> NoSession]
    /\ task = [t \in TaskIds |-> NewTask(0, {})]
    /\ call = [c \in CallIds |-> IdleCall]
    /\ coro = [c \in CallIds |-> [t \in TaskIds |-> NoCoro]]
    /\ _running_tasks = [t \in TaskIds |-> 0]
    /\ dispatch_log = <<>>
    /\ lifecycle = NoLifecycle

\* An Orchestrator constructed on a database that may hold the records (and
\* worktrees) of instances of an earlier run.
InitPool ==
    /\ NoSessions
    /\ \E records \in SUBSET PoolIds :
          /\ Cardinality(records) <= 1
          /\ orchestrator = NewOrchestrator(records)
    /\ claude_instance = NewInstance("idle", TRUE)

\* orchestrator.py 61: the instance limit test.
\* (variant: > in place of >=)
AtCapacityOffByOne(n) == n > MaxPool

AtCapacity(n) == n >= MaxPool

\* orchestrator.py 43-87.  The lock (59) is free whenever a caller runs: no
\* holder suspends inside it, so the call is one step.  Past the limit test
\* the worktree or the instance record may fail to be created (64-84); then
\* nothing is registered.  Otherwise an instance with a fresh id is recorded
\* in the database and registered.
CreateInstance(outcome) ==
    /\ IF AtCapacity(Cardinality(orchestrator.active_instances))
       THEN orchestrator' = [orchestrator EXCEPT
               !.op = "create", !.arg = 0, !.ret = "capacity_error"]
       ELSE IF outcome = "error"
       THEN orchestrator' = [orchestrator EXCEPT
               !.op = "create", !.arg = 0, !.ret = "error"]
       ELSE \E id \in PoolIds \ orchestrator.records :
              orchestrator' = [orchestrator EXCEPT
                 !.active_instances = @ \cup {id}, !.records = @ \cup {id},
                 !.status[id] = "idle", !.last_activity[id] = "None",
                 !.last_accessed[id] = "recent",
                 !.op = "create", !.arg = id, !.ret = "ok"]
    /\ UNCHANGED <<sessionVars, claude_instance>>

\* orchestrator.py 98-126: get_instance finds the instance in the pool, or
\* rebuilds it from its database record and registers it.
GetInstanceFinds(id) == id \in orchestrator.active_instances \cup orchestrator.records

\* orchestrator.py 128-158.  None of the awaits inside the lock suspends
\* (get_instance and stop run to their end), so the call is one step: an
\* unknown id returns False; otherwise the instance is stopped, taken out of
\* the pool and its record deleted (the object is dropped).
RemoveInstance(id) ==
    /\ IF ~GetInstanceFinds(id)
       THEN orchestrator' = [orchestrator EXCEPT
               !.op = "remove", !.arg = id, !.ret = "false"]
       ELSE orchestrator' = [orchestrator EXCEPT
               !.active_instances = @ \ {id}, !.records = @ \ {id},
               !.status[id] = "none", !.last_activity[id] = "None",
               !.last_accessed[id] = "None",
               !.op = "remove", !.arg = id, !.ret = "true"]
    /\ UNCHANGED <<sessionVars, claude_instance>>

\* Callers of create_instance and remove_instance in any order.
NextPool ==
    \/ \E outcome \in {"ok", "error"} : CreateInstance(outcome)
    \/ \E id \in PoolIds : RemoveInstance(id)

SpecPool == InitPool /\ [][NextPool]_vars

\* ------------------------------------------------------------- execute_query
\* Largest max_retries a caller passes (the default, claude_instance.py 140).
MaxRetries == 3

\* What one attempt (claude_instance.py 172-198) meets at the endpoint: the
\* query completes, or wait_for or the SDK raises the named exception
\* ("Exception" stands for any other exception).
Behaviours ==
    {"ok", "TimeoutError", "CLINotFoundError", "CLIConnectionError",
     "ProcessError", "CLIJSONDecodeError", "Exception"}

\* The keys of the dicts execute_query returns: 159-164, 204-209, and the
\* failure dicts of the retry loop (216-222 and the like).
KeysNotStarted == {"success", "error", "output", "messages"}
KeysSuccess == {"success", "output", "messages", "prompt"}
KeysFailure == {"success", "error", "output", "messages", "prompt"}

\* The error texts of the failure dicts (the variable parts left out).
ErrorNotStarted == "Failed to initialize Claude instance"
ErrorTimeout == "Query timed out after multiple attempts"
ErrorNotFound == "Claude Code CLI not found"
ErrorSdk == "Claude Code SDK error after attempts"
ErrorJson == "Claude Code SDK JSON error"
ErrorUnexpected == "Unexpected error after attempts"
ErrorLoop == "Unexpected termination of retry loop"

\* claude_instance.py 211, 239 and 267: the except clauses that retry.
\* (variant: every exception is retried)
RetriedAll(behaviour) == behaviour # "ok"

Retried(behaviour) ==
    behaviour \in {"TimeoutError", "CLIConnectionError", "ProcessError", "Exception"}

\* claude_instance.py 213, 241 and 269: the test for the last attempt.
\* (variant: gives up one attempt early)
LastAttemptEarly(attempt, max_retries) == attempt + 1 >= max_retries

LastAttempt(attempt, max_retries) == attempt = max_retries

\* claude_instance.py 224, 252 and 280: the seconds slept before a retry.
Backoff(attempt) == 2 ^ attempt

\* The error text of the failure dict for an exception.
ErrorOf(behaviour) ==
    CASE behaviour = "TimeoutError" -> ErrorTimeout
      [] behaviour = "CLINotFoundError" -> ErrorNotFound
      [] behaviour \in {"CLIConnectionError", "ProcessError"} -> ErrorSdk
      [] behaviour = "CLIJSONDecodeError" -> ErrorJson
      [] OTHER -> ErrorUnexpected

\* claude_instance.py 101-125: the status start() leaves, given what the
\* probe of _test_connection (362-373) returned.
\* (variant: the probe's answer ignored)
StatusAfterStartAlwaysActive(probe) == "active"

StatusAfterStart(probe) == IF probe THEN "active" ELSE "error"

\* A return of execute_query with the given status and dict.
QueryReturns(status, success, error, keys) ==
    [claude_instance EXCEPT
        !.status = status, !.pc = "done", !.ret = "returned",
        !.result = [success |-> success, error |-> error, keys |-> keys]]

\* claude_instance.py 140-171: execute_query up to its first attempt.  A
\* worker that is not running is started first; start() raises ValueError
\* when the worktree does not exist, and nothing catches it.
ExecuteQuery(max_retries, probe) ==
    /\ claude_instance.pc = "idle"
    /\ \E started \in {IF IsRunning(claude_instance.status)
                       THEN claude_instance.status
                       ELSE StatusAfterStart(probe)} :
         claude_instance' =
           IF ~IsRunning(claude_instance.status) /\ ~claude_instance.worktree_exists
           THEN [claude_instance EXCEPT !.pc = "done", !.ret = "raised",
                                        !.max_retries = max_retries,
                                        !.op = "execute_query"]
           ELSE IF ~IsRunning(started)
           THEN [QueryReturns(started, FALSE, ErrorNotStarted, KeysNotStarted)
                   EXCEPT !.max_retries = max_retries, !.op = "execute_query"]
           ELSE IF max_retries < 0          \* range(max_retries + 1) is empty
           THEN [QueryReturns("error", FALSE, ErrorLoop, KeysFailure)
                   EXCEPT !.max_retries = max_retries, !.op = "execute_query"]
           ELSE [claude_instance EXCEPT !.status = "busy", !.pc = "attempt",
                                        !.max_retries = max_retries,
                                        !.attempt = 0, !.op = "execute_query"]
    /\ UNCHANGED <<sessionVars, orchestrator>>

\* claude_instance.py 171-281: one attempt of the retry loop and what its
\* except clause does: return, or sleep and go round again.
Attempt(behaviour) ==
    /\ claude_instance.pc = "attempt"
    /\ \E made \in {[claude_instance EXCEPT
                       !.history = Append(@, behaviour),
                       !.op = "execute_query"]} :
         claude_instance' =
           IF behaviour = "ok"
           THEN [made EXCEPT !.status = "active", !.pc = "done",
                             !.ret = "returned",
                             !.result = [success |-> TRUE, error |-> "none",
                                         keys |-> KeysSuccess]]
           ELSE IF Retried(behaviour)
                   /\ ~LastAttempt(claude_instance.attempt,
                                   claude_instance.max_retries)
           THEN [made EXCEPT !.waits = Append(@, Backoff(claude_instance.attempt)),
                             !.attempt = @ + 1]
           ELSE [made EXCEPT !.status = "error", !.pc = "done",
                             !.ret = "returned",
                             !.result = [success |-> FALSE,
                                         error |-> ErrorOf(behaviour),
                                         keys |-> KeysFailure]]
    /\ UNCHANGED <<sessionVars, orchestrator>>

\* A worker in any status, bound to a worktree that exists or was removed,
\* on which execute_query is called once.
InitQuery ==
    /\ NoSessions
    /\ orchestrator = NewOrchestrator({})
    /\ \E status \in InstanceStatus, worktree_exists \in BOOLEAN :
          claude_instance = NewInstance(status, worktree_exists)

NextQuery ==
    \/ \E max_retries \in -1..MaxRetries, probe \in BOOLEAN :
          ExecuteQuery(max_retries, probe)
    \/ \E behaviour \in Behaviours : Attempt(behaviour)

SpecQuery == InitQuery /\ [][NextQuery]_vars

\* ------------------------------------------------------------- start and stop
\* What the endpoint does to the query of _test_connection: answers, sends
\* nothing, or raises.
ProbeOutcomes == {"ok", "fail", "raise"}

\* claude_instance.py 362-373: True for an answer, False for none and (372)
\* for an exception.
TestConnection(outcome) == outcome = "ok"

\* claude_instance.py 101-125: start().
Start(outcome) ==
    /\ claude_instance' =
         IF ~claude_instance.worktree_exists
         THEN [claude_instance EXCEPT !.op = "start", !.op_ret = "ValueError",
                                      !.probed = "none"]
         ELSE [claude_instance EXCEPT
                 !.op = "start", !.probed = outcome,
                 !.status = StatusAfterStart(TestConnection(outcome)),
                 !.op_ret = IF TestConnection(outcome) THEN "True" ELSE "False"]
    /\ UNCHANGED <<sessionVars, orchestrator>>

\* claude_instance.py 127-138: stop(); the status is set before the database
\* write, whose failure makes it return False.
Stop(db) ==
    /\ claude_instance' =
         [claude_instance EXCEPT !.op = "stop", !.status = "stopped",
                                 !.probed = "none",
                                 !.op_ret = IF db = "ok" THEN "True" ELSE "False"]
    /\ UNCHANGED <<sessionVars, orchestrator>>

\* worktree.py 124-159: the worker's worktree is removed.
WorktreeRemoved ==
    /\ claude_instance.worktree_exists
    /\ claude_instance' = [claude_instance EXCEPT !.worktree_exists = FALSE,
                                                  !.worktree_is_git = FALSE,
                                                  !.op = "remove_worktree",
                                                  !.op_ret = "none",
                                                  !.probed = "none"]
    /\ UNCHANGED <<sessionVars, orchestrator>>

\* The caller has the result of execute_query; the next call can be made.
QueryOver ==
    /\ claude_instance.pc = "done"
    /\ claude_instance' =
         [NewInstance(claude_instance.status, claude_instance.worktree_exists)
            EXCEPT !.op = "return",
                   !.worktree_is_git = claude_instance.worktree_is_git,
                   !.health = claude_instance.health]
    /\ UNCHANGED <<sessionVars, orchestrator>>

\* A worker as constructed, on which start, stop and execute_query are
\* called in any order, start and stop also while execute_query is waiting
\* for the endpoint or sleeping between attempts.
InitWorker ==
    /\ NoSessions
    /\ orchestrator = NewOrchestrator({})
    /\ claude_instance = NewInstance("idle", TRUE)

NextWorker ==
    \/ \E outcome \in ProbeOutcomes : Start(outcome)
    \/ \E db \in SaveOutcomes : Stop(db)
    \/ WorktreeRemoved
    \/ \E max_retries \in 0..1, probe \in BOOLEAN :
          ExecuteQuery(max_retries, probe)
    \/ \E behaviour \in Behaviours : Attempt(behaviour)
    \/ QueryOver

SpecWorker == InitWorker /\ [][NextWorker]_vars

\* ------------------------------------------------------------- shutdown
\* instance.start() on a pooled worker (as orchestrator.py 215 and 277 call
\* it); _update_status (claude_instance.py 404-407) stamps last_activity.
\* On a worker whose worktree is gone it raises ValueError (107-108).
StartPooled(id, outcome) ==
    /\ id \in orchestrator.active_instances
    /\ orchestrator' =
          IF orchestrator.last_accessed[id] = "None"
          THEN [orchestrator EXCEPT
                  !.op = "start", !.arg = id, !.ret = "ValueError"]
          ELSE [orchestrator EXCEPT
                  !.status[id] = StatusAfterStart(TestConnection(outcome)),
                  !.last_activity[id] = "recent",
                  !.op = "start", !.arg = id,
                  !.ret = IF TestConnection(outcome) THEN "true" ELSE "false"]
    /\ UNCHANGED <<sessionVars, claude_instance>>

\* orchestrator.py 387-389: the workers shutdown stops, given those whose
\* stop() fails; stop() catches its own failure (claude_instance.py 137), so
\* the loop goes on.
\* (variant: the loop ends at the first failing stop)
StoppedUntilFailure(id, failing) ==
    /\ id \in orchestrator.active_instances
    /\ IsRunning(orchestrator.status[id])
    /\ ~\E f \in failing : f < id

StoppedByShutdown(id, failing) ==
    /\ id \in orchestrator.active_instances
    /\ IsRunning(orchestrator.status[id])

\* orchestrator.py 394-396: the asyncio tasks shutdown cancels.
CancelledByShutdown(c, t) ==
    _running_tasks[t] = c /\ coro[c][t].st # "done"

\* orchestrator.py 384-399: shutdown().  No await in it suspends, so it is
\* one step, taken at an await of the other coroutines.  A cancelled
\* _execute_single_task leaves `async with semaphore` and gives its slot back.
Shutdown(failing) ==
    /\ NoneRunning
    /\ failing \subseteq {id \in orchestrator.active_instances :
                            IsRunning(orchestrator.status[id])}
    /\ orchestrator' = [orchestrator EXCEPT
          !.status = [id \in PoolIds |->
                        IF StoppedByShutdown(id, failing) THEN "stopped" ELSE @[id]],
          !.last_activity = [id \in PoolIds |->
                        IF StoppedByShutdown(id, failing) THEN "recent" ELSE @[id]],
          !.active_instances = {},
          !.stop_failed = failing,
          !.op = "shutdown", !.arg = 0, !.ret = "none"]
    /\ coro' = [c \in CallIds |-> [t \in TaskIds |->
                  IF CancelledByShutdown(c, t)
                  THEN [coro[c][t] EXCEPT !.st = "cancelled"]
                  ELSE coro[c][t]]]
    /\ call' = [c \in CallIds |->
                  [call[c] EXCEPT !.semaphore = @ + Cardinality(
                      {t \in TaskIds : /\ CancelledByShutdown(c, t)
                                       /\ coro[c][t].st = "executing"})]]
    /\ _running_tasks' = [t \in TaskIds |-> 0]
    /\ UNCHANGED <<session, task, dispatch_log, lifecycle, claude_instance>>

\* An orchestrator whose pool is filled and started while one caller executes
\* a session, and which is then shut down, once; the caller's coroutine
\* goes on after it.
NextShutdown ==
    \/ \E c \in SequentialCallIds, s \in SessionIds :
          NoCallInFlight /\ ExecuteSession(c, s)
    \/ \E c \in SequentialCallIds : Cycle(c)
    \/ \E c \in SequentialCallIds : LoopExit(c, "ok")
    \/ \E c \in SequentialCallIds, t \in TaskIds : TaskStart(c, t)
    \/ \E c \in SequentialCallIds, t \in TaskIds : TaskFinish(c, t, "success")
    \/ orchestrator.op # "shutdown" /\ CreateInstance("ok")
    \/ \E id \in PoolIds, outcome \in {"ok", "fail"} : StartPooled(id, outcome)
    \/ \E failing \in SUBSET PoolIds :
          orchestrator.op # "shutdown" /\ Shutdown(failing)

SpecShutdown == InitPause /\ [][NextShutdown]_vars

\* ------------------------------------------------------------- the facade
\* The orders in which a dict can hold the members of S.
Perms(S) ==
    {q \in [1..Cardinality(S) -> S] :
        \A i, j \in 1..Cardinality(S) : i # j => q[i] # q[j]}

Min(a, b) == IF a <= b THEN a ELSE b
Max(a, b) == IF a >= b THEN a ELSE b

\* Python's seq[:k]: the first k members, or all but the last -k when k is
\* negative.
Slice(seq, k) ==
    SubSeq(seq, 1, IF k >= 0 THEN Min(k, Len(seq)) ELSE Max(Len(seq) + k, 0))

\* orchestrator.py 188: max_concurrent or config.max_concurrent_instances
\* (None and 0 are both written 0 here).
EffectiveMaxConcurrent(max_concurrent) ==
    IF max_concurrent = 0 THEN MaxPool ELSE max_concurrent

\* orchestrator.py 209: needed_instances.
\* (variant: one per task, whatever max_concurrent)
NeededInstancesPerTask(ntasks, max_concurrent, npooled) == ntasks - npooled

NeededInstances(ntasks, max_concurrent, npooled) ==
    Min(ntasks, max_concurrent) - npooled

\* orchestrator.py 211-217: how many instances the loop creates when the
\* environment lets `working` creations succeed: it ends at the first
\* create_instance that raises, at capacity (61) or in the worktree (65).
CreatedInstances(needed, npooled, working) ==
    Max(0, Min(needed, Min(MaxPool - npooled, working)))

\* orchestrator.py 261: the dependencies of step i.
\* (variant: no dependency registered)
StepDependenciesNone(i) == {}

StepDependencies(i) == IF i > 1 THEN {i - 1} ELSE {}

\* orchestrator.py 174-222: run_parallel_tasks up to its execute_session
\* call.  ntasks task dicts, of which those in dangling name a dependency
\* (a task id cannot be known before add_task made it, so it names no task).
RunParallelTasks(ntasks, dangling, max_concurrent, working, outcome) ==
    /\ orchestrator.facade.pc = "idle"
    /\ ~session[1].exists
    /\ session' = [session EXCEPT ![1] = NewSession(1..ntasks)]
    /\ task' = [t \in TaskIds |->
                  IF t \in 1..ntasks
                  THEN NewTask(0, IF t \in dangling THEN {Ghost} ELSE {})
                  ELSE task[t]]
    /\ \E mc \in {EffectiveMaxConcurrent(max_concurrent)} :
       \E pooled \in Perms(orchestrator.active_instances) :
       \E ncreated \in {CreatedInstances(
                          NeededInstances(ntasks, mc, Len(pooled)),
                          Len(pooled), working)} :
       \E ids \in {S \in SUBSET (PoolIds \ orchestrator.records) :
                      Cardinality(S) = ncreated} :
       \E fresh \in Perms(ids) :
       \E instances \in {pooled \o fresh} :
          orchestrator' = [orchestrator EXCEPT
             !.active_instances = @ \cup ids,
             !.records = @ \cup ids,
             !.status = [id \in PoolIds |->
                           IF id \in ids
                           THEN StatusAfterStart(TestConnection(outcome))
                           ELSE @[id]],
             !.last_activity = [id \in PoolIds |->
                           IF id \in ids THEN "recent" ELSE @[id]],
             !.last_accessed = [id \in PoolIds |->
                           IF id \in ids THEN "recent" ELSE @[id]],
             !.op = "run_parallel_tasks", !.arg = 0, !.ret = "none",
             !.facade = [op |-> "run_parallel_tasks", pc |-> "execute",
                         session_id |-> 1, ntasks |-> ntasks,
                         instances |-> Slice(instances, mc),
                         max_concurrent |-> mc,
                         argument |-> max_concurrent,
                         pooled |-> Len(pooled), created |-> ncreated,
                         registered |-> Range(Slice(instances, mc)),
                         ret |-> "none", success |-> FALSE,
                         instances_used |-> Len(Slice(instances, mc))]]
    /\ UNCHANGED <<call, coro, _running_tasks, dispatch_log, lifecycle,
                   claude_instance>>

\* orchestrator.py 240-281: run_sequential_workflow up to its
\* execute_session call.  With an empty pool it creates one instance, and a
\* create_instance that raises ends the call: nothing catches it.  With
\* workers in the pool it takes the first of the dict, whichever that is.
RunSequentialWorkflow(nsteps, working, outcome) ==
    /\ orchestrator.facade.pc = "idle"
    /\ ~session[1].exists
    /\ session' = [session EXCEPT ![1] = NewSession(1..nsteps)]
    /\ task' = [t \in TaskIds |->
                  IF t \in 1..nsteps THEN NewTask(0, StepDependencies(t))
                  ELSE task[t]]
    /\ IF orchestrator.active_instances # {}
       THEN \E instance \in orchestrator.active_instances :
              orchestrator' = [orchestrator EXCEPT
                 !.op = "run_sequential_workflow", !.arg = 0, !.ret = "none",
                 !.facade = [NoFacade EXCEPT
                               !.op = "run_sequential_workflow",
                               !.pc = "execute", !.session_id = 1,
                               !.ntasks = nsteps,
                               !.instances = <<instance>>,
                               !.max_concurrent = 1,
                               !.registered = {instance}]]
       ELSE IF AtCapacity(0) \/ working = 0
       THEN orchestrator' = [orchestrator EXCEPT
                 !.op = "run_sequential_workflow", !.arg = 0, !.ret = "none",
                 !.facade = [NoFacade EXCEPT
                               !.op = "run_sequential_workflow",
                               !.pc = "done", !.session_id = 1,
                               !.ntasks = nsteps, !.ret = "raised"]]
       ELSE \E id \in PoolIds \ orchestrator.records :
              orchestrator' = [orchestrator EXCEPT
                 !.active_instances = @ \cup {id}, !.records = @ \cup {id},
                 !.status[id] = StatusAfterStart(TestConnection(outcome)),
                 !.last_activity[id] = "recent",
                 !.last_accessed[id] = "recent",
                 !.op = "run_sequential_workflow", !.arg = 0, !.ret = "none",
                 !.facade = [NoFacade EXCEPT
                               !.op = "run_sequential_workflow",
                               !.pc = "execute", !.session_id = 1,
                               !.ntasks = nsteps,
                               !.instances = <<id>>,
                               !.max_concurrent = 1, !.created = 1,
                               !.registered = {id}]]
    /\ UNCHANGED <<call, coro, _running_tasks, dispatch_log, lifecycle,
                   claude_instance>>

\* orchestrator.py 224-228 and 284-288: the execute_session call.
FacadeExecute(c) ==
    /\ orchestrator.facade.pc = "execute"
    /\ call[c].pc = "idle"
    /\ ExecuteSessionArgs(c, orchestrator.facade.session_id,
          {<<orchestrator.facade.instances, orchestrator.facade.max_concurrent>>})

\* orchestrator.py 230-238 and 290-297: execute_session has returned (or
\* raised, which nothing catches) and the result dict is built.
FacadeReturn(c) ==
    /\ orchestrator.facade.pc = "execute"
    /\ call[c].pc = "done"
    /\ orchestrator' = [orchestrator EXCEPT
          !.facade.pc = "done",
          !.facade.ret = IF call[c].ret = "raised" THEN "raised" ELSE "returned",
          !.facade.success = (call[c].ret = "true")]
    /\ UNCHANGED <<sessionVars, claude_instance>>

\* An orchestrator whose pool holds the workers of earlier calls, on which
\* one of the two facade calls is made.  Workers return success true or
\* false; at most `working` worktree creations succeed.
InitFacade ==
    /\ NoSessions
    /\ orchestrator = NewOrchestrator({})
    /\ claude_instance = NewInstance("idle", TRUE)

NextFacade ==
    \/ orchestrator.facade.pc = "idle" /\ CreateInstance("ok")
    \/ \E ntasks \in 0..MaxGraphTasks, max_concurrent \in -1..MaxConcurrent,
          working \in 0..MaxPool, outcome \in {"ok", "fail"} :
       \E dangling \in SUBSET (1..ntasks) :
          RunParallelTasks(ntasks, dangling, max_concurrent, working, outcome)
    \/ \E nsteps \in 0..MaxGraphTasks, working \in 0..1,
          outcome \in {"ok", "fail"} :
          RunSequentialWorkflow(nsteps, working, outcome)
    \/ \E c \in SequentialCallIds : FacadeExecute(c)
    \/ \E c \in SequentialCallIds : Cycle(c)
    \/ \E c \in SequentialCallIds, db \in {"ok", "down"} : LoopExit(c, db)
    \/ \E c \in SequentialCallIds, t \in TaskIds : TaskStart(c, t)
    \/ \E c \in SequentialCallIds, t \in TaskIds,
          outcome \in {"success", "failure"} : TaskFinish(c, t, outcome)
    \/ \E c \in SequentialCallIds : FacadeReturn(c)

SpecFacade == InitFacade /\ [][NextFacade]_vars

\* A step of the event loop once the facade call is made.
ProgressFacade ==
    \/ \E c \in SequentialCallIds : FacadeExecute(c)
    \/ \E c \in SequentialCallIds : Cycle(c)
    \/ \E c \in SequentialCallIds : LoopExit(c, "ok")
    \/ \E c \in SequentialCallIds, t \in TaskIds : TaskStart(c, t)
    \/ \E c \in SequentialCallIds, t \in TaskIds,
          outcome \in {"success", "failure"} : TaskFinish(c, t, outcome)
    \/ \E c \in SequentialCallIds : FacadeReturn(c)

\* The same with the scheduling asyncio gives and a database that works.
NextFacadeFair ==
    \/ orchestrator.facade.pc = "idle" /\ CreateInstance("ok")
    \/ \E ntasks \in 0..MaxSessionTasks, max_concurrent \in 0..MaxConcurrent,
          working \in 0..MaxPool :
       \E dangling \in SUBSET (1..ntasks) :
          RunParallelTasks(ntasks, dangling, max_concurrent, working, "ok")
    \/ \E nsteps \in 0..MaxSessionTasks, working \in 0..1 :
          RunSequentialWorkflow(nsteps, working, "ok")
    \/ ProgressFacade

SpecFacadeFair == InitFacade /\ [][NextFacadeFair]_vars /\ WF_vars(ProgressFacade)

\* ------------------------------------------------------------- workers in the scheduler
\* The instance_id of the worker claude_instance stands for, when it is
\* passed to execute_session: the first of the list.
ThisWorker == 1

\* One session executed by one caller, while start() and stop() are called
\* on the first worker, before the call or at one of its awaits.
NextDispatch ==
    \/ Next
    \/ \E outcome \in ProbeOutcomes : NoneRunning /\ Start(outcome)
    \/ NoneRunning /\ Stop("ok")

SpecDispatch == InitPause /\ [][NextDispatch]_vars

\* ------------------------------------------------------------- notions of the claims
\* The tasks of session s with the given status.
WithStatus(s, status) == {t \in session[s].tasks : task[t].status = status}

\* execute_session invocation c is in flight.
InFlight(c) == call[c].pc \in {"run", "sleep"}

\* ------------------------------------------------------------- C1
\* C1: a task enters `running` only when every task in its dependencies has
\* status `completed` at that moment (a failed dependency does not do).
C1_DependencySafety ==
    [][\A t \in TaskIds :
         (task[t].status # "running" /\ task'[t].status = "running") =>
            \A dep \in task[t].dependencies :
               dep \in TaskIds /\ task[dep].status = "completed"]_vars

\* ------------------------------------------------------------- C2
\* C2: while an execute_session call is in flight, the number of tasks of its
\* session with status `running` is at most its max_concurrent.
C2_RunningBound ==
    \A c \in CallIds :
       InFlight(c) =>
          Cardinality(WithStatus(call[c].session_id, "running"))
             <= call[c].max_concurrent

\* Two tasks run at once under max_concurrent = 2: the bound is met.
C2_Witness ==
    \E c \in CallIds :
       /\ InFlight(c) /\ call[c].max_concurrent = 2
       /\ Cardinality(WithStatus(call[c].session_id, "running")) = 2
       /\ \E t \in TaskIds : coro[c][t].st = "executing"

\* ------------------------------------------------------------- C3
\* C3: within one execute_session call no worker is the assigned_instance of
\* two tasks in flight (dispatched, not yet reaped), and with a single worker
\* at most one task is `running` at any time.
C3_WorkerExclusive ==
    \A c \in CallIds :
       InFlight(c) =>
          /\ \A t, u \in call[c].running_tasks :
                t # u => task[t].assigned_instance # task[u].assigned_instance
          /\ \A t \in call[c].running_tasks : task[t].assigned_instance # None
          /\ Len(call[c].instances) = 1 =>
                Cardinality(WithStatus(call[c].session_id, "running")) <= 1

\* One worker, room for two (max_concurrent = 2): a task is running while an
\* independent task, ready, waits for the worker.
C3_Witness ==
    \E c \in CallIds, t, u \in TaskIds :
       /\ InFlight(c) /\ Len(call[c].instances) = 1 /\ call[c].max_concurrent = 2
       /\ {t, u} \subseteq session[call[c].session_id].tasks
       /\ task[t].dependencies = {} /\ task[u].dependencies = {}
       /\ coro[c][t].st = "executing" /\ task[u].status = "pending"

\* ------------------------------------------------------------- C4
\* C4: a task that depends, directly or transitively, on a task that ended
\* `failed` is never executed to `completed`, and is `failed` once
\* execute_session has returned True.
C4_FailurePropagates ==
    \A s \in SessionIds : \A t \in session[s].tasks :
       (\E d \in TransitiveDeps(t) : task[d].status = "failed") =>
          /\ task[t].status # "completed"
          /\ (\E c \in CallIds : call[c].pc = "done" /\ call[c].session_id = s
                                 /\ call[c].ret = "true")
                => task[t].status = "failed"

\* ------------------------------------------------------------- C5
\* A pass of the loop by c would find nothing ready and nothing in flight
\* while tasks are pending.
Starved(c) ==
    /\ InFlight(c)
    /\ ReadyTasks(c) = {}
    /\ call[c].running_tasks = {}
    /\ WithStatus(call[c].session_id, "pending") # {}

\* C5: a pass of the scheduling loop that finds no ready task, dispatches
\* nothing and has nothing in flight while tasks are pending marks those
\* tasks `failed`, and the call returns.
C5_StarvationDetected ==
    [][\A c \in CallIds :
         (Starved(c) /\ call'[c] # call[c]) =>
            /\ call'[c].pc = "done"
            /\ \A t \in WithStatus(call[c].session_id, "pending") :
                  task'[t].status = "failed"]_vars

\* ------------------------------------------------------------- C6
\* execute_session invocation c has returned True, its session is
\* `completed` and each of its tasks is `completed` or `failed`.
ReturnedCompleted(c) ==
    /\ call[c].pc = "done" /\ call[c].ret = "true"
    /\ session[call[c].session_id].status = "completed"
    /\ \A t \in session[call[c].session_id].tasks :
          task[t].status \in {"completed", "failed"}

\* C6: on an active session with acyclic dependencies naming only its own
\* tasks, an execute_session call with at least one worker and
\* max_concurrent >= 1 eventually returns, and unless the save of the final
\* state raised it returns True, the session `completed` and every task
\* `completed` or `failed`.
C6_Terminates ==
    \A c \in CallIds :
       (InFlight(c) /\ Len(call[c].instances) >= 1 /\ call[c].max_concurrent >= 1)
          ~> (/\ call[c].pc = "done"
              /\ session[call[c].session_id].error = "none" => ReturnedCompleted(c))

\* A call on a chain of MaxGraphTasks tasks has returned, a task failed and
\* its dependent completed.
C6_Witness ==
    \E c \in CallIds :
       /\ ReturnedCompleted(c)
       /\ Cardinality(session[call[c].session_id].tasks) = MaxGraphTasks
       /\ \E t, u \in session[call[c].session_id].tasks :
             /\ t \in task[u].dependencies
             /\ task[t].status = "failed" /\ task[u].status = "completed"

\* ------------------------------------------------------------- C7
\* The tasks a step dispatched, in order.
NewlyDispatched == SubSeq(dispatch_log', Len(dispatch_log) + 1, Len(dispatch_log'))

\* Task y is ready as the data model defines it: pending, and every
\* dependency a task with status `completed`.
ReadyByStatus(y) ==
    /\ task[y].status = "pending"
    /\ \A dep \in task[y].dependencies : dep \in TaskIds /\ task[dep].status = "completed"

\* Every task of the step is dispatched while no task satisfying ready, still
\* undispatched, has a strictly higher priority.
DispatchedByPriority(ready(_, _)) ==
    \A k \in DOMAIN NewlyDispatched :
       LET c == NewlyDispatched[k][1]
           x == NewlyDispatched[k][2]
       IN  \A y \in session[call[c].session_id].tasks :
              (/\ ready(c, y)
               /\ y # x
               /\ \A j \in 1..(k - 1) : NewlyDispatched[j][2] # y)
                 => task[y].priority <= task[x].priority

DispatchIndex(t) ==
    IF \E i \in DOMAIN dispatch_log : dispatch_log[i][2] = t
    THEN CHOOSE i \in DOMAIN dispatch_log : dispatch_log[i][2] = t
    ELSE 0

\* The session A(priority 1), B(priority 2), C(priority 1, deps A and B), as
\* tasks 1, 2 and 3.
IsScenarioABC ==
    /\ session[1].tasks = 1..3
    /\ task[1].priority = 1 /\ task[1].dependencies = {}
    /\ task[2].priority = 2 /\ task[2].dependencies = {}
    /\ task[3].priority = 1 /\ task[3].dependencies = {1, 2}

\* In the scenario, run with one worker and max_concurrent = 2: B goes before
\* A, C goes only with A and B both `completed`, and once the call has
\* returned all three are `completed`.
ScenarioABC ==
    IsScenarioABC =>
       /\ \A c \in CallIds :
             (InFlight(c) /\ call[c].instances = <<1>> /\ call[c].max_concurrent = 2) =>
                /\ DispatchIndex(1) # 0 =>
                      DispatchIndex(2) # 0 /\ DispatchIndex(2) < DispatchIndex(1)
                /\ task[3].status # "pending" =>
                      /\ task[1].status = "completed"
                      /\ task[2].status = "completed"
       /\ \A c \in CallIds :
             (call[c].pc = "done" /\ call[c].ret = "true") =>
                \A t \in 1..3 : task[t].status = "completed"

C8_RejectedCallNoOp ==
    [][\A c \in CallIds :
         (/\ call[c].pc \in {"idle", "done"}
          /\ call'[c] # call[c]
          /\ \/ ~session[call'[c].session_id].exists
             \/ session[call'[c].session_id].status # "active")
            => /\ call'[c].pc = "done" /\ call'[c].ret = "false"
               /\ UNCHANGED <<session, task, coro, _running_tasks, dispatch_log>>]_vars

\* A second call on a session that a first call completed has returned False.
C8_Witness ==
    \E c \in CallIds :
       /\ call[c].pc = "done" /\ call[c].ret = "false"
       /\ session[call[c].session_id].status = "completed"
       /\ \E t \in session[call[c].session_id].tasks : task[t].status = "completed"

\* ------------------------------------------------------------- C9
\* C9: when the scheduling loop of an execute_session call finishes and
\* nothing raised inside the call, the call returns True and the session is
\* `completed` whatever the tasks' statuses; a session is `failed` only with
\* the error of a raise recorded in its metadata.
C9_TaskFailureIsLocal ==
    /\ [][\A c \in CallIds :
            (InFlight(c) /\ call'[c].pc = "done") =>
               (session'[call[c].session_id].error = "none" =>
                   /\ call'[c].ret = "true"
                   /\ session'[call[c].session_id].status = "completed")]_vars
    /\ [](\A s \in SessionIds :
            session[s].status = "failed" => session[s].error # "none")

\* A call has returned True, the session is `completed`, and every one of its
\* MaxGraphTasks tasks is `failed`.
C9_Witness ==
    \E c \in CallIds :
       /\ call[c].pc = "done" /\ call[c].ret = "true"
       /\ session[call[c].session_id].status = "completed"
       /\ Cardinality(session[call[c].session_id].tasks) = MaxGraphTasks
       /\ \A t \in session[call[c].session_id].tasks : task[t].status = "failed"

\* ------------------------------------------------------------- C10
\* C10: when a task execution ends, the task is `completed` if the worker's
\* result had success true and `failed` if it had success false, no success
\* key, or the worker raised (then with the exception text as error); a
\* TaskResult of the task and the worker is attached, completed_at is set
\* and the semaphore slot is released.
C10_SingleTaskExecution ==
    [][\A c \in CallIds, t \in TaskIds :
         (coro[c][t].st = "executing" /\ coro'[c][t].st # "executing") =>
            /\ coro'[c][t].st = "done"
            /\ coro'[c][t].outcome \in Outcomes
            /\ task'[t].status =
                  IF coro'[c][t].outcome = "success" THEN "completed" ELSE "failed"
            /\ task'[t].result.task_id = t
            /\ task'[t].result.success = (coro'[c][t].outcome = "success")
            /\ task'[t].result.instance_id = coro[c][t].instance
            /\ coro'[c][t].outcome = "raise" => task'[t].result.error = "exception_text"
            /\ task'[t].completed_at
            /\ call'[c].semaphore = call[c].semaphore + 1
            /\ call'[c].pc = call[c].pc]_vars

\* The worker raised: the task is failed with the exception text, the slot is
\* back, and the scheduler, asleep, has not yet reaped the execution.
C10_Witness ==
    \E c \in CallIds, t \in TaskIds :
       /\ coro[c][t].st = "done" /\ coro[c][t].outcome = "raise"
       /\ task[t].status = "failed" /\ task[t].result.error = "exception_text"
       /\ call[c].pc = "sleep" /\ t \in call[c].running_tasks
       /\ call[c].semaphore = call[c].max_concurrent

\* ------------------------------------------------------------- C11
\* C11: when an error is raised inside an execute_session call, the call does
\* not raise: it returns False, the session is `failed` with the error text
\* in its metadata, and no task changes.
C11_InternalErrorHandled ==
    [][\A c \in CallIds :
         (/\ call[c].pc # "done" /\ call'[c].pc = "done"
          /\ session'[call'[c].session_id].error # session[call'[c].session_id].error)
            => /\ call'[c].ret = "false"
               /\ session'[call'[c].session_id].status = "failed"
               /\ session'[call'[c].session_id].error = "error_text"
               /\ task' = task]_vars

\* ------------------------------------------------------------- C12
\* C12: a session whose status is `completed` or `failed` keeps that status
\* in every step of every operation, a call already in flight included.
C12_TerminalAbsorbing ==
    [][\A s \in SessionIds :
         session[s].status \in {"completed", "failed"}
            => session'[s].status = session[s].status]_vars

\* ------------------------------------------------------------- C13
\* The status a lifecycle operation starts from, and the one it leads to.
LifecycleFrom(op) == IF op = "pause" THEN "active" ELSE "paused"
LifecycleTo(op) == IF op = "pause" THEN "paused" ELSE "active"

\* C13: pause_session returns True only on an `active` session, which it
\* makes `paused`; resume_session only on a `paused` session, which it makes
\* `active`; on a session in any other status or unknown they return False
\* and change neither session nor tasks.
C13_PauseResumeGuards ==
    [][lifecycle' # lifecycle =>
         LET s == lifecycle'.session_id
             op == lifecycle'.op
             legal == session[s].exists /\ session[s].status = LifecycleFrom(op)
         IN  /\ lifecycle'.ret = "true" =>
                  legal /\ session'[s].status = LifecycleTo(op)
             /\ ~legal => /\ lifecycle'.ret = "false"
                          /\ session' = session /\ task' = task]_vars

\* resume_session on a session that an execute_session call completed has
\* returned False.
C13_Witness ==
    /\ lifecycle.op = "resume" /\ lifecycle.ret = "false"
    /\ session[lifecycle.session_id].status = "completed"

\* ------------------------------------------------------------- C14
\* Invocation c is the only one in flight, on a paused session, with a worker
\* and a slot.
AloneOnPaused(c) ==
    /\ InFlight(c)
    /\ session[call[c].session_id].status = "paused"
    /\ \A d \in CallIds \ {c} : ~InFlight(d)
    /\ Len(call[c].instances) >= 1 /\ call[c].max_concurrent >= 1

\* C14: an execute_session call in flight when its session is paused runs to
\* completion all the same (it returns True, the session `completed` and
\* every task terminal, unless its final save raises), and a call started on
\* the paused session returns False and dispatches nothing.
C14_PauseDoesNotPreempt ==
    /\ \A c \in CallIds :
         AloneOnPaused(c) ~>
            (/\ call[c].pc = "done"
             /\ session[call[c].session_id].error = "none" => ReturnedCompleted(c))
    /\ [][\A c \in CallIds :
            (/\ call[c].pc \in {"idle", "done"} /\ call'[c] # call[c]
             /\ session[call'[c].session_id].status = "paused")
               => /\ call'[c].pc = "done" /\ call'[c].ret = "false"
                  /\ dispatch_log' = dispatch_log /\ task' = task]_vars

\* pause_session succeeded during a call on a chain of MaxSessionTasks tasks,
\* another call was turned away, and the first call has completed the
\* session with every task completed.
C14_Witness ==
    \E c, d \in CallIds :
       /\ c # d /\ ReturnedCompleted(c)
       /\ call[d].pc = "done" /\ call[d].ret = "false"
       /\ call[d].session_id = call[c].session_id
       /\ lifecycle = [op |-> "pause", session_id |-> call[c].session_id, ret |-> "true"]
       /\ Cardinality(session[call[c].session_id].tasks) = MaxSessionTasks
       /\ \A t \in session[call[c].session_id].tasks :
             /\ task[t].status = "completed"
             /\ t > 1 => task[t].dependencies = {t - 1}

\* ------------------------------------------------------------- C15
\* C15: the pool never holds more than max_concurrent_instances workers; a
\* create_instance call on a full pool fails with the capacity error and
\* registers nothing, and one that registers a worker found the pool below
\* the limit.
C15_PoolCap ==
    /\ [](Cardinality(orchestrator.active_instances) <= MaxPool)
    /\ [][(orchestrator'.op = "create" /\ orchestrator' # orchestrator) =>
            /\ Cardinality(orchestrator.active_instances) >= MaxPool =>
                  /\ orchestrator'.ret = "capacity_error"
                  /\ orchestrator'.active_instances = orchestrator.active_instances
                  /\ orchestrator'.records = orchestrator.records
            /\ orchestrator'.ret = "ok" =>
                  Cardinality(orchestrator.active_instances) < MaxPool]_vars

\* create_instance has failed with the capacity error on a full pool.
C15_Witness ==
    /\ orchestrator.op = "create" /\ orchestrator.ret = "capacity_error"
    /\ Cardinality(orchestrator.active_instances) = MaxPool

\* ------------------------------------------------------------- C16
\* C16: when execute_session calls for different sessions overlap on one
\* SessionManager and their worker lists share a worker, that worker is never
\* inside run_task for two tasks at the same time.
C16_WorkerExclusiveAcrossSessions ==
    \A c, d \in CallIds : \A t, u \in TaskIds :
       (/\ c # d /\ call[c].session_id # call[d].session_id
        /\ coro[c][t].st = "executing" /\ coro[d][u].st = "executing") =>
          coro[c][t].instance # coro[d][u].instance

\* ------------------------------------------------------------- C17
\* The execute_session calls that have started are for different sessions
\* and share no worker.
SeparateCalls ==
    \A c, d \in CallIds :
       (c # d /\ call[c].pc # "idle" /\ call[d].pc # "idle") =>
          /\ call[c].session_id # call[d].session_id
          /\ Range(call[c].instances) \cap Range(call[d].instances) = {}

\* C17: when two execute_session calls for different sessions, each with its
\* own workers, interleave on one SessionManager, a finished execution is
\* reaped by the loop of the call that dispatched it: a handle leaves
\* self._running_tasks only as its task enters that call's completed_tasks
\* (otherwise that call's loop never sees it done and never returns).
C17_ReapedByOwnLoop ==
    [][\A t \in TaskIds :
         (/\ SeparateCalls
          /\ _running_tasks[t] # 0 /\ _running_tasks'[t] = 0) =>
            t \in call'[_running_tasks[t]].completed_tasks]_vars

\* ------------------------------------------------------------- C18
\* The execute_query call has returned after attempts that all ended in one
\* of the given exceptions.
ReturnedAfterOnly(exceptions) ==
    /\ claude_instance.pc = "done" /\ claude_instance.ret = "returned"
    /\ claude_instance.history # <<>>
    /\ Range(claude_instance.history) \subseteq exceptions

\* The exception of the last attempt.
LastBehaviour == claude_instance.history[Len(claude_instance.history)]

\* C18: when every attempt of execute_query timed out or failed with a
\* transient connection error, the call made max_retries retries after the
\* first attempt, slept 2^attempt seconds before each retry (1, 2, 4 for
\* max_retries = 3), returned success false with the timeout error
\* (respectively the connection error) and left the worker in status `error`.
C18_RetriesThenFails ==
    ReturnedAfterOnly({"TimeoutError", "CLIConnectionError", "ProcessError"}) =>
       /\ Len(claude_instance.history) = claude_instance.max_retries + 1
       /\ claude_instance.waits =
             [i \in 1..claude_instance.max_retries |-> 2 ^ (i - 1)]
       /\ claude_instance.result.success = FALSE
       /\ claude_instance.result.error =
             IF LastBehaviour = "TimeoutError" THEN ErrorTimeout ELSE ErrorSdk
       /\ claude_instance.status = "error"

\* max_retries = 3 and four timeouts: three retries after waits of 1, 2, 4.
C18_Witness ==
    /\ ReturnedAfterOnly({"TimeoutError"})
    /\ claude_instance.max_retries = 3
    /\ Len(claude_instance.history) = 4
    /\ claude_instance.waits = <<1, 2, 4>>
    /\ claude_instance.result.error = ErrorTimeout

\* ------------------------------------------------------------- C19
\* The fatal endpoint failures: endpoint missing, malformed response.
Fatal == {"CLINotFoundError", "CLIJSONDecodeError"}

\* C19: an attempt of execute_query that fails fatally is the last one: no
\* attempt and no backoff wait follows it (the only waits are those of the
\* retries before it), the call has returned success false and the worker
\* status is `error`.
C19_FatalNotRetried ==
    \A i \in DOMAIN claude_instance.history :
       claude_instance.history[i] \in Fatal =>
          /\ i = Len(claude_instance.history)
          /\ Len(claude_instance.waits) = i - 1
          /\ claude_instance.pc = "done" /\ claude_instance.ret = "returned"
          /\ claude_instance.result.success = FALSE
          /\ claude_instance.result.error = ErrorOf(claude_instance.history[i])
          /\ claude_instance.status = "error"

\* A malformed response at the first of four allowed attempts ended the call.
C19_Witness ==
    /\ claude_instance.history = <<"CLIJSONDecodeError">>
    /\ claude_instance.max_retries = 3
    /\ claude_instance.pc = "done" /\ claude_instance.waits = <<>>

\* ------------------------------------------------------------- C20
\* C20: execute_query never raises: whatever the worker status, the endpoint
\* behaviour and the worktree, a finished call has returned a dict with the
\* keys success, output, error and messages.
C20_NeverRaises ==
    claude_instance.pc = "done" =>
       /\ claude_instance.ret = "returned"
       /\ {"success", "output", "error", "messages"}
             \subseteq claude_instance.result.keys

\* ------------------------------------------------------------- C21
\* The step is a call of the given method on the worker.
WorkerStep(op) ==
    claude_instance'.op = op /\ claude_instance' # claude_instance

\* C21: start() on a worker whose worktree does not exist raises ValueError
\* without probing the endpoint and without changing the status; when the
\* worktree exists, a successful probe gives status `active` and True, a
\* failed or raising probe status `error` and False.
C21_StartFailsFast ==
    [][WorkerStep("start") =>
         IF ~claude_instance.worktree_exists
         THEN /\ claude_instance'.op_ret = "ValueError"
              /\ claude_instance'.probed = "none"
              /\ claude_instance'.status = claude_instance.status
         ELSE \/ /\ claude_instance'.probed = "ok"
                 /\ claude_instance'.status = "active"
                 /\ claude_instance'.op_ret = "True"
              \/ /\ claude_instance'.probed \in {"fail", "raise"}
                 /\ claude_instance'.status = "error"
                 /\ claude_instance'.op_ret = "False"]_vars

\* start() was called on a stopped worker whose worktree is gone.
C21_Witness ==
    /\ claude_instance.op = "start" /\ claude_instance.op_ret = "ValueError"
    /\ claude_instance.status = "stopped" /\ ~claude_instance.worktree_exists

\* ------------------------------------------------------------- C22
\* The transitions of the worker's state machine.
StateMachine ==
    {<<"idle", "active">>, <<"active", "busy">>, <<"busy", "active">>,
     <<"idle", "stopped">>, <<"active", "stopped">>}
       \cup {<<status, "error">> : status \in InstanceStatus}

\* C22: under any sequence or interleaving of start, stop and execute_query
\* the worker's status changes only along idle -> active, active -> busy,
\* busy -> active, idle or active -> stopped, and any status -> error.
C22_StateMachine ==
    [][claude_instance'.status # claude_instance.status =>
         <<claude_instance.status, claude_instance'.status>> \in StateMachine]_vars

\* ------------------------------------------------------------- C23
\* C23: the scheduler assigns a task only to a worker whose status at that
\* moment is `idle` or `active`; a worker that is `busy`, `stopped` or
\* `error` gets no new task.
C23_AssignsAvailableOnly ==
    [][\A t \in TaskIds :
         (/\ task[t].status # "running" /\ task'[t].status = "running"
          /\ task'[t].assigned_instance = ThisWorker) =>
            IsRunning(claude_instance.status)]_vars

\* ------------------------------------------------------------- C24
\* C24: when shutdown() returns the pool is empty, every worker that was
\* idle or active is stopped (also when the stop of another worker failed),
\* every asyncio task that had not finished is cancelled, and the
\* SessionManager's _running_tasks is empty.
C24_ShutdownStopsAll ==
    [][(orchestrator'.op = "shutdown" /\ orchestrator.op # "shutdown") =>
         /\ orchestrator'.active_instances = {}
         /\ \A id \in orchestrator.active_instances :
               IsRunning(orchestrator.status[id]) =>
                  orchestrator'.status[id] = "stopped"
         /\ \A c \in CallIds, t \in TaskIds :
               (_running_tasks[t] = c /\ coro[c][t].st \in {"created", "executing"})
                  => coro'[c][t].st = "cancelled"
         /\ \A t \in TaskIds : _running_tasks'[t] = 0]_vars

\* Shutdown stopped two workers although the stop of the first failed, and
\* cancelled a task execution.
C24_Witness ==
    /\ orchestrator.op = "shutdown"
    /\ \E f, id \in PoolIds :
          /\ f < id /\ f \in orchestrator.stop_failed
          /\ orchestrator.status[f] = "stopped"
          /\ orchestrator.status[id] = "stopped"
    /\ \E c \in CallIds, t \in TaskIds : coro[c][t].st = "cancelled"

\* ------------------------------------------------------------- C25
\* A run_sequential_workflow call has registered its steps.
SequentialCall ==
    /\ orchestrator.facade.op = "run_sequential_workflow"
    /\ orchestrator.facade.ret # "raised"

\* C25: run_sequential_workflow registers step i with the single dependency
\* step i-1 (the first step with none) and executes the session with
\* max_concurrent = 1 on one worker; the steps are started in list order, a
\* step is started only after the step before it has finished, and at most
\* one step is `running` at any time.
C25_SequentialWorkflow ==
    SequentialCall =>
       /\ \A t \in session[1].tasks :
             /\ task[t].dependencies = IF t = 1 THEN {} ELSE {t - 1}
             /\ (task[t].status # "pending" /\ t > 1) =>
                   task[t - 1].status \in {"completed", "failed"}
       /\ \A c \in CallIds :
             InFlight(c) => call[c].max_concurrent = 1 /\ Len(call[c].instances) = 1
       /\ \A i, j \in DOMAIN dispatch_log :
             i < j => dispatch_log[i][2] < dispatch_log[j][2]
       /\ Cardinality(WithStatus(1, "running")) <= 1

\* A workflow of three steps: the first failed, the second completed, the
\* third is running.
C25_Witness ==
    /\ SequentialCall
    /\ session[1].tasks = 1..3
    /\ task[1].status = "failed" /\ task[2].status = "completed"
    /\ task[3].status = "running"
    /\ Len(dispatch_log) = 3

\* ------------------------------------------------------------- C26
\* C26 (as stated): for every max_concurrent, run_parallel_tasks registers
\* every task in a new session, creates
\* workers only when the pool holds fewer than min(len(tasks),
\* max_concurrent), and registers in the session and hands to the scheduler
\* at most max_concurrent workers: instances_used <= max_concurrent.
C26_ParallelWorkers ==
    orchestrator.facade.op = "run_parallel_tasks" =>
       /\ session[1].exists
       /\ session[1].tasks = 1..orchestrator.facade.ntasks
       /\ orchestrator.facade.created > 0 =>
             orchestrator.facade.pooled <
                Min(orchestrator.facade.ntasks, orchestrator.facade.max_concurrent)
       /\ Cardinality(orchestrator.facade.registered)
             <= orchestrator.facade.max_concurrent
       /\ Len(orchestrator.facade.instances) <= orchestrator.facade.max_concurrent
       /\ orchestrator.facade.instances_used <= orchestrator.facade.max_concurrent
       /\ \A c \in CallIds :
             InFlight(c) =>
                Len(call[c].instances) <= orchestrator.facade.max_concurrent

\* C26 (amended): the same for calls whose max_concurrent argument is None
\* or not negative.
C26_ParallelWorkersValid ==
    orchestrator.facade.argument >= 0 => C26_ParallelWorkers

\* Three tasks, max_concurrent = 2 and one worker in the pool: one worker is
\* created and two are handed to the scheduler.
C26_Witness ==
    /\ orchestrator.facade.op = "run_parallel_tasks"
    /\ orchestrator.facade.ntasks = 3 /\ orchestrator.facade.argument = 2
    /\ orchestrator.facade.pooled = 1 /\ orchestrator.facade.created = 1
    /\ orchestrator.facade.instances_used = 2
    /\ \E c \in CallIds : InFlight(c) /\ Len(call[c].instances) = 2

\* ------------------------------------------------------------- C27
\* C27: a call of run_parallel_tasks or run_sequential_workflow eventually
\* returns its result dict; it neither hangs nor raises, also when no worker
\* can be created and when a task's dependency can never be satisfied.
C27_FacadeReturns ==
    (orchestrator.facade.op # "none") ~> (orchestrator.facade.ret = "returned")

\* ------------------------------------------------------------- persistence
\* session.py 74-107: create_session.  The row is written by
\* database.create_session with the dump of the new session; when that raises
\* the session is not cached either (the cache is filled after it, 106).
CreateSession(s, db) ==
    /\ NoneRunning
    /\ ~session[s].exists
    /\ IF db = "ok"
       THEN /\ session' = [session EXCEPT ![s] =
                  [NewSession({}) EXCEPT
                      !.data_json = ModelDumpJson("active", {}, task)]]
            /\ lifecycle' = [op |-> "create_session", session_id |-> s,
                             ret |-> "session"]
       ELSE /\ lifecycle' = [op |-> "create_session", session_id |-> s,
                             ret |-> "raised"]
            /\ UNCHANGED session
    /\ UNCHANGED <<task, call, coro, _running_tasks, dispatch_log, componentVars>>

\* Task ids no session uses (task ids are fresh uuids, session.py 154).
FreeTaskIds == TaskIds \ UNION {session[s].tasks : s \in SessionIds}

\* session.py 135-172: add_task.  The task enters the in-memory session and
\* the session is saved.
AddTask(s, pri, deps) ==
    /\ NoneRunning
    /\ IF ~session[s].exists
       THEN /\ lifecycle' = [op |-> "add_task", session_id |-> s, ret |-> "none"]
            /\ UNCHANGED <<session, task>>
       ELSE /\ FreeTaskIds # {}
            /\ Cardinality(session[s].tasks) < MaxSessionTasks
            /\ \E t \in {CHOOSE u \in FreeTaskIds :
                                \A v \in FreeTaskIds : u <= v} :
               \E records \in {[task EXCEPT ![t] = NewTask(pri, deps)]} :
                  /\ task' = records
                  /\ session' = [session EXCEPT
                        ![s].tasks = @ \cup {t},
                        ![s].data_json =
                            SaveSession(@, ModelDumpJson(session[s].status,
                                              session[s].tasks \cup {t}, records))]
            /\ lifecycle' = [op |-> "add_task", session_id |-> s, ret |-> "task"]
    /\ UNCHANGED <<call, coro, _running_tasks, dispatch_log, componentVars>>

\* session.py 174-194: add_instance.  The worker is noted in
\* session.instances and the session is saved.
AddInstance(s) ==
    /\ NoneRunning
    /\ IF ~session[s].exists
       THEN /\ lifecycle' = [op |-> "add_instance", session_id |-> s,
                             ret |-> "false"]
            /\ UNCHANGED session
       ELSE /\ session' = [session EXCEPT
                  ![s].data_json =
                      SaveSession(@, ModelDumpJson(session[s].status,
                                                   session[s].tasks, task))]
            /\ lifecycle' = [op |-> "add_instance", session_id |-> s,
                             ret |-> "true"]
    /\ UNCHANGED <<task, call, coro, _running_tasks, dispatch_log, componentVars>>

\* session.py 109-133 with the id not in active_sessions: get_session builds
\* the session from the row's data_json; the status column is not read.
LoadSession(data_json) ==
    [status |-> data_json.status, tasks |-> DOMAIN data_json.tasks,
     records |-> data_json.tasks]

\* A SessionManager on an empty database.
InitPersist ==
    /\ NoSessions
    /\ orchestrator = NewOrchestrator({})
    /\ claude_instance = NewInstance("idle", TRUE)

\* The SessionManager's calls with one worker and one execute_session at a
\* time.
NextPersist ==
    \/ \E s \in SessionIds, db \in SaveOutcomes : CreateSession(s, db)
    \/ \E s \in SessionIds :
       \E deps \in SUBSET session[s].tasks :
          Cardinality(deps) <= 1 /\ AddTask(s, 0, deps)
    \/ \E s \in SessionIds : AddInstance(s)
    \/ \E s \in SessionIds, db \in SaveOutcomes : PauseSession(s, db)
    \/ \E s \in SessionIds, db \in SaveOutcomes : ResumeSession(s, db)
    \/ \E c \in SequentialCallIds, s \in SessionIds :
          ExecuteSessionArgs(c, s, {<<(<<1>>), 1>>})
    \/ \E c \in SequentialCallIds : Cycle(c)
    \/ \E c \in SequentialCallIds : LoopExit(c, "ok")
    \/ \E c \in SequentialCallIds, t \in TaskIds : TaskStart(c, t)
    \/ \E c \in SequentialCallIds, t \in TaskIds : TaskFinish(c, t, "success")

SpecPersist == InitPersist /\ [][NextPersist]_vars

\* ------------------------------------------------------------- C28
\* The session a cold get_session builds has the status, the task set, and
\* the task statuses and dependency sets of the in-memory session s.
SameAsMemory(s) ==
    \E cold \in {LoadSession(session[s].data_json)} :
       /\ cold.status = session[s].status
       /\ cold.tasks = session[s].tasks
       /\ \A t \in cold.tasks \cap session[s].tasks :
             /\ cold.records[t].status = task[t].status
             /\ cold.records[t].dependencies = task[t].dependencies

\* C28: whenever no SessionManager call is in progress, every session, loaded
\* from the database with a cold cache, has the same status, the same tasks
\* and the same task statuses and dependency sets as the in-memory session.
C28_WriteThrough ==
    NoCallInFlight =>
       \A s \in SessionIds : session[s].exists => SameAsMemory(s)

\* ------------------------------------------------------------- health_check
\* claude_instance.py 347-357: the entries of the issues list.
IssueNotRunning == "Instance process not running"
IssueNoWorktree == "Worktree directory does not exist"
IssueNotGit == "Worktree is not a valid git repository"

\* claude_instance.py 340-360: health_info starts healthy with no issues;
\* each of the three tests that fails clears healthy and appends its entry.
\* (variant: the repository test is left out)
HealthInfoWithoutGit(status, exists, is_git) ==
    [healthy |-> IsRunning(status) /\ exists,
     issues |-> (IF ~IsRunning(status) THEN <<IssueNotRunning>> ELSE <<>>)
                \o (IF ~exists THEN <<IssueNoWorktree>> ELSE <<>>)]

HealthInfo(status, exists, is_git) ==
    [healthy |-> ~(~IsRunning(status) \/ ~exists \/ ~is_git),
     issues |-> (IF ~IsRunning(status) THEN <<IssueNotRunning>> ELSE <<>>)
                \o (IF ~exists THEN <<IssueNoWorktree>> ELSE <<>>)
                \o (IF ~is_git THEN <<IssueNotGit>> ELSE <<>>)]

\* claude_instance.py 334-360: health_check().  It has no await in it, so it
\* runs at once, also while an execute_query of the worker is suspended.
HealthCheck ==
    /\ claude_instance' =
         [claude_instance EXCEPT
            !.op = "health_check", !.op_ret = "health_info", !.probed = "none",
            !.health = HealthInfo(claude_instance.status,
                                  claude_instance.worktree_exists,
                                  claude_instance.worktree_is_git)]
    /\ UNCHANGED <<sessionVars, orchestrator>>

\* utils.py 15-21: the worktree directory stays but stops being a git
\* repository (its .git entry is removed or damaged).
GitDirRemoved ==
    /\ claude_instance.worktree_is_git
    /\ claude_instance' = [claude_instance EXCEPT !.worktree_is_git = FALSE,
                                                  !.op = "remove_git_dir",
                                                  !.op_ret = "none",
                                                  !.probed = "none"]
    /\ UNCHANGED <<sessionVars, orchestrator>>

\* A worker on which start, stop, execute_query and health_check are called
\* in any order while its worktree may be damaged or removed.
NextHealth ==
    \/ NextWorker
    \/ HealthCheck
    \/ GitDirRemoved

SpecHealth == InitWorker /\ [][NextHealth]_vars

\* ------------------------------------------------------------- C29
\* The checks of health_check that fail on the worker as it is.
FailedChecks ==
    {check \in {"running", "exists", "git"} :
        \/ check = "running" /\ claude_instance.status \notin {"idle", "active"}
        \/ check = "exists" /\ ~claude_instance.worktree_exists
        \/ check = "git" /\ ~claude_instance.worktree_is_git}

\* C29: a health_check call reports healthy exactly when the status is idle
\* or active, the worktree exists and the worktree is a git repository; its
\* issues list has one entry per failed check, all different; and the call
\* leaves the worker's status as it was.
C29_HealthCheck ==
    [][claude_instance'.op = "health_check" /\ claude_instance' # claude_instance
         => /\ claude_instance'.health.healthy = (FailedChecks = {})
            /\ Len(claude_instance'.health.issues) = Cardinality(FailedChecks)
            /\ Cardinality(Range(claude_instance'.health.issues))
                  = Cardinality(FailedChecks)
            /\ claude_instance'.status = claude_instance.status]_vars

\* health_check was called on a worker that is not running and whose
\* worktree is gone: all three checks fail.
C29_Witness ==
    /\ claude_instance.op = "health_check"
    /\ claude_instance.status = "stopped"
    /\ ~claude_instance.worktree_exists
    /\ ~claude_instance.health.healthy
    /\ Len(claude_instance.health.issues) = 3

\* ------------------------------------------------------------- cleanup
\* claude_instance.py 330: get_status_info hands out self.last_activity as it
\* is: None until the first _update_status (72), a datetime object after it
\* (406).  "recent" and "stale" are datetimes newer and older than the
\* threshold of the cleanup call.
StatusInfoLastActivity(o, id) ==
    [type |-> IF o.last_activity[id] = "None" THEN "NoneType" ELSE "datetime",
     value |-> o.last_activity[id]]

\* datetime.datetime.fromisoformat (orchestrator.py 377): it parses a str and
\* raises TypeError for an argument of any other type.
FromIsoFormat(x) ==
    IF x.type = "str"
    THEN [raises |-> FALSE, value |-> x.value]
    ELSE [raises |-> TRUE, value |-> "TypeError"]

\* orchestrator.py 138-158 as cleanup calls it on a pooled instance.
RemovedFrom(o, id) ==
    [o EXCEPT !.active_instances = @ \ {id}, !.records = @ \ {id},
              !.status[id] = "none", !.last_activity[id] = "None",
              !.last_accessed[id] = "None"]

\* orchestrator.py 372-382: the loop over list(self.active_instances.items()).
\* An instance without last_activity is passed over; otherwise the value is
\* parsed and compared with the threshold, and an old instance is removed.
\* Nothing in the loop catches an exception: a raising fromisoformat, or a
\* worktree removal that raises inside remove_instance (after the instance was
\* stopped, 144-149), ends cleanup.
RECURSIVE CleanupLoop(_, _, _)
CleanupLoop(items, o, failing) ==
    IF items = <<>> THEN [o EXCEPT !.ret = "returned"]
    ELSE LET id == Head(items)
             info == StatusInfoLastActivity(o, id)
         IN  IF info.type = "NoneType"
             THEN CleanupLoop(Tail(items), o, failing)
             ELSE IF FromIsoFormat(info).raises
             THEN [o EXCEPT !.ret = "raised"]
             ELSE IF FromIsoFormat(info).value # "stale"
             THEN CleanupLoop(Tail(items), o, failing)
             ELSE IF id \in failing
             THEN [o EXCEPT !.status[id] = "stopped", !.ret = "raised"]
             ELSE CleanupLoop(Tail(items), RemovedFrom(o, id), failing)

\* worktree.py 161-183: cleanup_inactive_worktrees.  Every worktree row whose
\* last_accessed is older than the threshold is removed, directory and row;
\* a removal that raises is skipped.  Whether an instance of the pool is
\* bound to the worktree is not looked at.
SweptWorktrees(o, failing) ==
    [o EXCEPT !.last_accessed =
        [id \in PoolIds |->
            IF o.last_accessed[id] = "stale" /\ id \notin failing
            THEN "None" ELSE o.last_accessed[id]]]

\* orchestrator.py 352-382: cleanup(max_age_hours): the sweep of the
\* worktrees, then the loop over the pool.  failing are the instances whose
\* worktree cannot be removed; the dict is walked in its own order.
Cleanup(failing) ==
    /\ \E items \in Perms(orchestrator.active_instances) :
          orchestrator' = [CleanupLoop(items, SweptWorktrees(orchestrator, failing),
                                       failing)
                             EXCEPT !.op = "cleanup", !.arg = 0]
    /\ UNCHANGED <<sessionVars, claude_instance>>

\* Time goes by: the last activity of a worker gets older than the threshold.
TimePasses(id) ==
    /\ orchestrator.last_activity[id] = "recent"
    /\ orchestrator' = [orchestrator EXCEPT !.last_activity[id] = "stale",
                                            !.op = "time", !.arg = id,
                                            !.ret = "none"]
    /\ UNCHANGED <<sessionVars, claude_instance>>

\* Time goes by: the last access of a worker's worktree gets older than the
\* threshold (the row is stamped at creation and by get_worktree only).
WorktreeAges(id) ==
    /\ orchestrator.last_accessed[id] = "recent"
    /\ orchestrator' = [orchestrator EXCEPT !.last_accessed[id] = "stale",
                                            !.op = "time", !.arg = id,
                                            !.ret = "none"]
    /\ UNCHANGED <<sessionVars, claude_instance>>

\* An Orchestrator with an empty pool.
InitCleanup ==
    /\ NoSessions
    /\ orchestrator = NewOrchestrator({})
    /\ claude_instance = NewInstance("idle", TRUE)

\* Workers are created, started and removed, time passes, and cleanup is
\* called at any moment.
NextCleanup ==
    \/ CreateInstance("ok")
    \/ \E id \in PoolIds, outcome \in {"ok", "fail"} : StartPooled(id, outcome)
    \/ \E id \in PoolIds : TimePasses(id)
    \/ \E id \in PoolIds : WorktreeAges(id)
    \/ \E id \in PoolIds : RemoveInstance(id)
    \/ \E failing \in SUBSET PoolIds : Cardinality(failing) <= 1 /\ Cleanup(failing)

SpecCleanup == InitCleanup /\ [][NextCleanup]_vars

\* ------------------------------------------------------------- C30
\* C30: a cleanup call does not raise, removes from the pool every worker
\* whose last activity is older than the threshold and keeps every worker
\* whose last activity is newer.
C30_CleanupBestEffort ==
    [][orchestrator'.op = "cleanup" /\ orchestrator' # orchestrator
         => /\ orchestrator'.ret # "raised"
            /\ \A id \in orchestrator.active_instances :
                  /\ orchestrator.last_activity[id] = "stale"
                        => id \notin orchestrator'.active_instances
                  /\ orchestrator.last_activity[id] = "recent"
                        => id \in orchestrator'.active_instances]_vars

\* ------------------------------------------------------------- C31
\* At the start of a pass of invocation c some task is ready, some worker of
\* the list has no in-flight task, and fewer than max_concurrent tasks are in
\* flight.
CanDispatch(c) ==
    /\ ReadyTasks(c) # {}
    /\ \E i \in DOMAIN call[c].instances :
          \A t \in call[c].running_tasks :
             task[t].assigned_instance # call[c].instances[i]
    /\ Cardinality(call[c].running_tasks) < call[c].max_concurrent

\* C31: a pass of the scheduling loop that starts with a ready task, a free
\* worker and fewer than max_concurrent tasks in flight dispatches a task.
C31_WorkConserving ==
    [][\A c \in CallIds :
         (Cycle(c) /\ CanDispatch(c)) => dispatch_log' # dispatch_log]_vars

\* ------------------------------------------------------------- C32
\* The number of times task t was dispatched, each dispatch creating the one
\* execution that calls run_task for it.
Dispatches(t) ==
    Cardinality({i \in DOMAIN dispatch_log : dispatch_log[i][2] = t})

\* C32: whatever execute_session calls are made and however they overlap,
\* every task is dispatched at most once and at most one invocation holds an
\* execution of it, so run_task is called at most once for it.
C32_AtMostOnce ==
    \A t \in TaskIds :
       /\ Dispatches(t) <= 1
       /\ Cardinality({c \in CallIds : coro[c][t].st # "none"}) <= 1

\* Two invocations on the same session have both been through a scheduling
\* pass while a task of the session, dispatched by one of them, is executed.
C32_Witness ==
    \E c, d \in CallIds, t \in TaskIds :
       /\ c # d
       /\ call[c].pc = "sleep" /\ call[d].pc = "sleep"
       /\ call[c].session_id = call[d].session_id
       /\ call[d].instances # <<>>
       /\ coro[c][t].st = "executing"
       /\ t \in session[call[d].session_id].tasks

\* ------------------------------------------------------------- C33
\* C33: in every state a `pending` task has no assigned worker and no result;
\* a `running` task has an assigned worker and started_at and no result; a
\* `completed` or `failed` task has a result with its own task_id, with
\* success true exactly when the status is `completed` and with the assigned
\* worker in its metadata, and has completed_at set.
C33_TaskRecordConsistent ==
    \A t \in TaskIds :
       /\ task[t].status \in {"pending", "running", "completed", "failed"}
       /\ task[t].status = "pending" =>
             task[t].assigned_instance = None /\ task[t].result = NoResult
       /\ task[t].status = "running" =>
             /\ task[t].assigned_instance # None
             /\ task[t].started_at
             /\ task[t].result = NoResult
       /\ task[t].status \in {"completed", "failed"} =>
             /\ task[t].result.task_id = t
             /\ task[t].result.success = (task[t].status = "completed")
             /\ task[t].assigned_instance # None
             /\ task[t].result.instance_id = task[t].assigned_instance
             /\ task[t].completed_at

\* One task has ended `completed`, one ended `failed` because run_task
\* raised, and a third is running.
C33_Witness ==
    \E t, u, v \in TaskIds :
       /\ task[t].status = "completed"
       /\ task[u].status = "failed" /\ task[u].result.error = "exception_text"
       /\ task[v].status = "running"

\* ------------------------------------------------------------- C34
\* The status changes a task may make.
ForwardMoves ==
    {<<"pending", "running">>, <<"running", "completed">>,
     <<"running", "failed">>}

\* C34: every change of a task's status is pending -> running,
\* running -> completed or running -> failed; so a `completed` or `failed`
\* task keeps its status and no task goes back to `pending`.
C34_StatusForward ==
    [][\A t \in TaskIds :
         task'[t].status # task[t].status
            => <<task[t].status, task'[t].status>> \in ForwardMoves]_vars

\* An invocation has returned with one task of its session `completed` and
\* another `failed`, while a second invocation is in flight.
C34_Witness ==
    \E c, d \in CallIds :
       /\ call[c].pc = "done" /\ call[c].ret = "true"
       /\ InFlight(d)
       /\ WithStatus(call[c].session_id, "completed") # {}
       /\ WithStatus(call[c].session_id, "failed") # {}

\* ------------------------------------------------------------- get_instance
\* orchestrator.py 89-126: get_instance(instance_id).  An id of the pool is
\* answered from the pool.  An id that only has a database record (whose
\* worktree is still there) is rebuilt: the ClaudeCodeInstance constructor
\* writes a record under a fresh id of its own (claude_instance.py 70-81),
\* the object then takes the requested id and is put into active_instances;
\* the instance limit is not looked at.  Any other id gives None.
GetInstance(id) ==
    /\ IF id \in orchestrator.active_instances
       THEN orchestrator' = [orchestrator EXCEPT
               !.op = "get", !.arg = id, !.ret = "instance"]
       ELSE IF id \in orchestrator.records
       THEN \E fresh \in PoolIds \ orchestrator.records :
              orchestrator' = [orchestrator EXCEPT
                 !.active_instances = @ \cup {id},
                 !.records = @ \cup {fresh},
                 !.status[id] = "idle", !.last_activity[id] = "None",
                 !.last_accessed[id] = "recent",     \* worktree.py 98
                 !.op = "get", !.arg = id, !.ret = "instance"]
       ELSE orchestrator' = [orchestrator EXCEPT
               !.op = "get", !.arg = id, !.ret = "none"]
    /\ UNCHANGED <<sessionVars, claude_instance>>

\* Callers of create_instance, get_instance, remove_instance and shutdown in
\* any order, on an orchestrator without sessions.
NextRegistry ==
    \/ \E outcome \in {"ok", "error"} : CreateInstance(outcome)
    \/ \E id \in PoolIds : GetInstance(id)
    \/ \E id \in PoolIds : RemoveInstance(id)
    \/ Shutdown({})

SpecRegistry == InitPool /\ [][NextRegistry]_vars

\* ------------------------------------------------------------- C35
\* C35: in every state reachable through the orchestrator's operations the
\* pool holds at most max_concurrent_instances workers.
C35_PoolBound ==
    Cardinality(orchestrator.active_instances) <= MaxPool

\* ------------------------------------------------------------- shutdown, fair
\* A step of the event loop other than a call from outside: the scheduling
\* loop and the task executions of the invocation in flight.
ProgressShutdown ==
    \/ \E c \in SequentialCallIds : Cycle(c)
    \/ \E c \in SequentialCallIds : LoopExit(c, "ok")
    \/ \E c \in SequentialCallIds, t \in TaskIds : TaskStart(c, t)
    \/ \E c \in SequentialCallIds, t \in TaskIds : TaskFinish(c, t, "success")

\* The same orchestrator with the scheduling asyncio gives: a coroutine that
\* can take a step takes it, a sleep ends, and every run_task returns.
SpecShutdownFair ==
    InitPause /\ [][NextShutdown]_vars /\ WF_vars(ProgressShutdown)

\* ------------------------------------------------------------- C36
\* C36: an execute_session call that is in flight when shutdown() cancels
\* executions it is waiting for eventually returns.
C36_ReturnsAfterShutdown ==
    \A c \in CallIds :
       (/\ orchestrator.op = "shutdown"
        /\ InFlight(c)
        /\ \E t \in TaskIds : coro[c][t].st = "cancelled")
          ~> (call[c].pc = "done")

\* ------------------------------------------------------------- cancellation
\* claude_instance.py 171-281: the asyncio task running execute_query is
\* cancelled (orchestrator.py 394-396) while the call waits for the endpoint
\* or sleeps between attempts.  CancelledError is not an Exception: no except
\* clause of the retry loop takes it and there is no finally, so the call ends
\* with the status as it is.
CancelQuery ==
    /\ claude_instance.pc = "attempt"
    /\ claude_instance' = [claude_instance EXCEPT
                              !.pc = "done", !.ret = "cancelled",
                              !.op = "cancel", !.op_ret = "none",
                              !.probed = "none"]
    /\ UNCHANGED <<sessionVars, orchestrator>>

\* A worker on which start, stop and execute_query are called in any order
\* and whose execute_query may be cancelled.
NextCancel ==
    \/ NextWorker
    \/ CancelQuery

SpecCancel == InitWorker /\ [][NextCancel]_vars

\* ------------------------------------------------------------- C37
\* C37: whenever no execute_query call is in progress on the worker, its
\* status is not `busy`.
C37_BusyOnlyInQuery ==
    claude_instance.pc # "attempt" => claude_instance.status # "busy"

\* ------------------------------------------------------------- C38
\* C38: every task of a session whose status is `completed` is `completed`
\* or `failed`.
C38_CompletedSessionTasksDone ==
    \A s \in SessionIds :
       session[s].status = "completed" =>
          \A t \in session[s].tasks : task[t].status \in {"completed", "failed"}

\* ------------------------------------------------------------- C39
\* C39: every worker of the pool is bound to a worktree that exists; the
\* sweep of cleanup removes no worktree of a worker that stays in the pool.
C39_PooledWorktreeExists ==
    \A id \in orchestrator.active_instances :
       orchestrator.last_accessed[id] # "None"

\* ------------------------------------------------------------- C40
\* C40: once pause_session has returned True for a session, the status of
\* the session stays `paused` in every step that is not a resume_session
\* call on that session which passes the status test.
C40_PausedUntilResumed ==
    [][\A s \in SessionIds :
          (/\ lifecycle = [op |-> "pause", session_id |-> s, ret |-> "true"]
           /\ session[s].status = "paused"
           /\ session'[s].status # "paused")
          => (/\ lifecycle'.op = "resume"
              /\ lifecycle'.session_id = s
              /\ lifecycle'.ret # "false")]_vars

====
